---- MODULE Spec2Model ----
(***************************************************************************)
(* A model of Auctions-Hunter: the seen-deal store (db/database.py), the   *)
(* dashboard search handler (web/app.py), hunt_deals (hunt.py),            *)
(* hunt_with_notifications (hunt_telegram.py) and the profit analysis      *)
(* (utils/price_checker.py).                                               *)
(*                                                                         *)
(* Text is kept as TLA+ strings and searched by substring, as the Python   *)
(* `in` operator does.  Money is kept exact, in units of 1/10000 dollar    *)
(* (MoneyUnit), and a margin as an exact fraction <<numerator,             *)
(* denominator>>; IEEE rounding of the Python floats is not modelled.      *)
(***************************************************************************)
EXTENDS Integers, Sequences, FiniteSets, TLC

VARIABLES
    \* ---- the SQLite database file (db/database.py)
    seen_deals,     \* committed rows of table seen_deals
    searches,       \* number of committed rows of table searches
    db_lock,        \* the connection holding SQLite's write lock, or NoOne
    clock,          \* CURRENT_TIMESTAMP, in seconds
    \* ---- concurrent callers of mark_deal_seen
    pc,             \* pc[c]: where caller c is inside mark_deal_seen
    args,           \* args[c]: the arguments of c's call
    pending,        \* pending[c]: c's uncommitted rows
    stamp,          \* stamp[c]: CURRENT_TIMESTAMP when c's statement ran
    ncalls,         \* calls started so far
    serial,         \* history: the committed calls applied one after another
    \* ---- reads of table seen_deals (is_deal_seen, get_unseen_deals)
    q_op,           \* the read that returned last, or "none"
    q_arg,          \* its argument: a url, or a list of urls
    q_result,       \* what it returned
    q_marked,       \* history: the urls mark_deal_seen has returned for
    \* ---- the container matchers of search_ebay (scrapers/browser.py)
    m_pc,           \* where search_ebay is
    m_page,         \* the cards of the result page, in document order
    m_sel,          \* position of the selector the loop is at
    m_listings,     \* listings, each with the selector it came from (0: fallback)
    m_items,        \* items
    m_fallback,     \* history: the fallback ran
    \* ---- one TelegramNotifier and its callers (notifications/telegram.py)
    t_sent_deals,   \* notifier.sent_deals
    t_op,           \* the method that returned last, or "none"
    t_arg,          \* its url
    t_result,       \* what should_notify returned last
    t_marked,       \* history: the urls mark_sent was called with
    t_alerted,      \* history: the urls individual alerts were printed for
    \* ---- one use of analyze_deal (utils/price_checker.py)
    a_title,        \* title
    a_price,        \* auction_price
    a_shipping,     \* shipping
    a_condition,    \* condition
    a_result,       \* the returned ProfitAnalysis object, or None
    a_pc,           \* "input", "analyzed", or "edited" once a field was assigned
    \* ---- the dashboard's search handler (web/app.py)
    store_ok,       \* whether the database file can be opened and written
    s_pc,           \* where the handler is
    s_params,       \* the query parameters of the request
    s_ebay_items,   \* ebay_items, between search_ebay and scraper.stop()
    s_all_items,    \* all_items
    s_deals,        \* deals
    s_counts,       \* source_counts
    s_marked,       \* how many of deals the marking loop has passed
    s_error,        \* the call whose exception ended the handler, or "none"
    s_seen0,        \* history: seen_deals when the request began
    s_nsearch,      \* requests begun so far
    s_open,         \* the browser, contexts and pages the request has open
    \* ---- hunt_deals (hunt.py)
    h_pc,           \* where hunt_deals is
    h_params,       \* sources, min_profit, min_margin, max_margin
    h_all_items,    \* all_items
    h_deals,        \* deals
    h_stats,        \* source_stats
    h_raising,      \* an exception is propagating out of the try block
    h_fault,        \* history: what went wrong in each source, or "none"
    h_got,          \* history: the list each source's scraper returned
    h_events,       \* history: the extractions issued and completed, in order
    h_open,         \* the browser, contexts and pages that are open
    \* ---- hunt_with_notifications (hunt_telegram.py), run after run
    n_pc,           \* where the run is
    n_params,       \* notify_individual, min_profit
    n_sent_deals,   \* notifier.sent_deals
    n_all_items,    \* all_items
    n_deals,        \* deals
    n_raising,      \* an exception is propagating out of the try block
    n_alerts,       \* history: individual alerts printed per url, all runs
    n_runs,         \* runs begun so far
    n_exit,         \* exit status of the last run, or Running
    \* ---- one search of an extractor (scrapers/)
    x_pc,           \* where the search is
    x_source,       \* which extractor runs
    x_listings,     \* listings: the item containers found on the page
    x_max_results,  \* max_results
    x_attempts,     \* containers the loop has taken so far
    x_items,        \* items
    x_from          \* history: for each item, the index of its container

storeVars == <<seen_deals, searches, db_lock, clock, pc, args, pending, stamp,
               ncalls, serial>>

queryVars == <<q_op, q_arg, q_result, q_marked>>

matchVars == <<m_pc, m_page, m_sel, m_listings, m_items, m_fallback>>

notifierVars == <<t_sent_deals, t_op, t_arg, t_result, t_marked, t_alerted>>

analyzeVars == <<a_title, a_price, a_shipping, a_condition, a_result, a_pc>>

searchVars == <<store_ok, s_pc, s_params, s_ebay_items, s_all_items, s_deals,
                s_counts, s_marked, s_error, s_seen0, s_nsearch, s_open>>

huntVars == <<h_pc, h_params, h_all_items, h_deals, h_stats, h_raising, h_fault,
              h_got, h_events, h_open>>

notifyVars == <<n_pc, n_params, n_sent_deals, n_all_items, n_deals, n_raising,
                n_alerts, n_runs, n_exit>>

extractVars == <<x_pc, x_source, x_listings, x_max_results, x_attempts, x_items,
                 x_from>>

vars == <<storeVars, analyzeVars, searchVars, huntVars, notifyVars, extractVars,
          queryVars, matchVars, notifierVars>>

-----------------------------------------------------------------------------
(* Bounds *)

MaxCalls == 2
MaxClock == 1
MaxItems == 2       \* listings one source returns for one query
MaxSearches == 2    \* requests the dashboard serves
MaxRuns == 2        \* runs of the hunt_telegram command
MaxContainers == 3  \* item containers on a result page
MaxCards == 2       \* cards on the result page search_ebay selects from
MaxUrls == 2        \* urls in one call of get_unseen_deals

Callers == {"s1", "s2"}
NoOne == "none"

-----------------------------------------------------------------------------
(* Optional values: Python None / SQL NULL is the empty tuple *)

None == <<>>
Some(v) == <<v>>

COALESCE(a, b) == IF a # None THEN a ELSE b

-----------------------------------------------------------------------------
(* Text: Python str.lower() and the substring test `x in s` *)

UpperAlpha == "ABCDEFGHIJKLMNOPQRSTUVWXYZ"
LowerAlpha == "abcdefghijklmnopqrstuvwxyz"

\* one character of str.lower()
LowerChar(ch) ==
    IF \E k \in 1..Len(UpperAlpha) : SubSeq(UpperAlpha, k, k) = ch
    THEN LET k == CHOOSE k \in 1..Len(UpperAlpha) : SubSeq(UpperAlpha, k, k) = ch
         IN SubSeq(LowerAlpha, k, k)
    ELSE ch

RECURSIVE LowerFrom(_, _)
LowerFrom(s, i) ==
    IF i > Len(s) THEN "" ELSE LowerChar(SubSeq(s, i, i)) \o LowerFrom(s, i + 1)

\* str.lower()
Lower(s) == LowerFrom(s, 1)

\* sub in s
Contains(s, sub) ==
    \E i \in 1..(Len(s) - Len(sub) + 1) : SubSeq(s, i, i + Len(sub) - 1) = sub

\* any(kw in s for kw in kws)
ContainsAny(s, kws) == \E kw \in kws : Contains(s, kw)

-----------------------------------------------------------------------------
(* utils/price_checker.py *)

\* Money is an integer number of 1/10000 dollar, so that a price in cents
\* times a modifier in hundredths times a whole fee percentage stays exact.
MoneyUnit == 10000
Dollars(d) == d * MoneyUnit
Cents(c) == c * (MoneyUnit \div 100)

\* A condition modifier is kept in hundredths: 0.85 is 85.
ModifierUnit == 100

\* platform_fee_percent: float = 13.0
DefaultPlatformFeePercent == 13

\* ProfitAnalysis.total_cost
total_cost(a) == a.auction_price + a.shipping_cost

\* ProfitAnalysis.expected_sell_price
expected_sell_price(a) == (a.estimated_retail * a.condition_modifier) \div ModifierUnit

\* Mutant: the platform charges half the percentage.
platform_fees_Halved(a) == (expected_sell_price(a) * a.platform_fee_percent) \div 200

\* ProfitAnalysis.platform_fees
platform_fees(a) == (expected_sell_price(a) * a.platform_fee_percent) \div 100

\* Mutant: the fees are left out of the profit.
profit_NoFees(a) == expected_sell_price(a) - total_cost(a)

\* ProfitAnalysis.profit
profit(a) == expected_sell_price(a) - total_cost(a) - platform_fees(a)

\* greatest common divisor of a >= 0 and b >= 0, not both 0
RECURSIVE GCD(_, _)
GCD(a, b) == IF b = 0 THEN a ELSE GCD(b, a % b)

Abs(x) == IF x < 0 THEN -x ELSE x

\* (p / q) * 100 for q > 0, as a fraction <<n, d>>, d > 0, p and q cancelled
\* first so that the numbers stay small
PercentOf(p, q) ==
    LET g == GCD(Abs(p), q) IN <<(p \div g) * 100, q \div g>>

\* Mutant: the ratio is not turned into a percentage.
profit_margin_percent_Ratio(a) ==
    IF expected_sell_price(a) <= 0 THEN <<0, 1>>
    ELSE LET g == GCD(Abs(profit(a)), expected_sell_price(a))
         IN <<profit(a) \div g, expected_sell_price(a) \div g>>

\* ProfitAnalysis.profit_margin_percent, as the exact fraction <<n, d>>, d > 0
profit_margin_percent(a) ==
    IF expected_sell_price(a) <= 0 THEN <<0, 1>>
    ELSE PercentOf(profit(a), expected_sell_price(a))

\* comparisons of a fraction <<n, d>> (d > 0) with a whole number k
FracGT(f, k) == f[1] > k * f[2]
FracGE(f, k) == f[1] >= k * f[2]
FracLE(f, k) == f[1] <= k * f[2]

\* Mutant: a good deal needs a margin above 80%.
is_good_deal_HighMargin(a) ==
    profit(a) > Dollars(30) /\ FracGT(profit_margin_percent(a), 80)

\* ProfitAnalysis.is_good_deal
is_good_deal(a) == profit(a) > Dollars(30) /\ FracGT(profit_margin_percent(a), 25)

\* ProfitAnalysis.is_great_deal
is_great_deal(a) == profit(a) > Dollars(75) /\ FracGT(profit_margin_percent(a), 40)

\* get_condition_modifier, in hundredths
get_condition_modifier(condition) ==
    LET condition_lower == Lower(condition) IN
    IF Contains(condition_lower, "new") /\ ~Contains(condition_lower, "pre") THEN 100
    ELSE IF Contains(condition_lower, "refurbished") \/ Contains(condition_lower, "renewed")
    THEN IF Contains(condition_lower, "excellent") THEN 85
         ELSE IF Contains(condition_lower, "good") THEN 75
         ELSE 80
    ELSE IF Contains(condition_lower, "pre-owned") \/ Contains(condition_lower, "used")
    THEN IF Contains(condition_lower, "like new") THEN 85
         ELSE IF Contains(condition_lower, "good") THEN 70
         ELSE IF Contains(condition_lower, "acceptable") THEN 55
         ELSE 65
    ELSE IF Contains(condition_lower, "salvage") THEN 35
    ELSE IF Contains(condition_lower, "parts") \/ Contains(condition_lower, "not working") THEN 25
    ELSE 70

skip_keywords ==
    {"cable", "lock", "bag", "backpack", "charger", "adapter", "case", "sleeve",
     "stand", "mount", "holder", "strap", "cleaning", "kit", "cover", "skin",
     "protector", "lot of"}

main_keywords == {"macbook", "thinkpad", "iphone", "ipad", "galaxy"}

laptop_keywords ==
    {"laptop", "notebook", "macbook", "thinkpad", "latitude", "chromebook",
     "elitebook", "probook", "ideapad", "pavilion", "inspiron", "xps",
     "surface pro", "surface laptop"}

\* the laptop branch of estimate_retail_from_title
LaptopRetail(t) ==
    IF Contains(t, "macbook pro")
    THEN IF Contains(t, "16") \/ Contains(t, "m3") \/ Contains(t, "m2") THEN 2000 ELSE 1200
    ELSE IF Contains(t, "macbook air") THEN 900
    ELSE IF Contains(t, "thinkpad") THEN (IF Contains(t, "x1") THEN 1200 ELSE 600)
    ELSE IF Contains(t, "dell latitude") THEN 500
    ELSE IF Contains(t, "chromebook") THEN 200
    ELSE IF Contains(t, "gaming") \/ Contains(t, "predator") \/ Contains(t, "rog") THEN 1000
    ELSE 400

\* Mutant: the plain "14" is tested before "14 pro".
PhoneRetail_14BeforePro(t) ==
    IF Contains(t, "15 pro") THEN 1000
    ELSE IF Contains(t, "15") THEN 800
    ELSE IF Contains(t, "14") THEN 600
    ELSE IF Contains(t, "14 pro") THEN 800
    ELSE IF Contains(t, "13") THEN 500
    ELSE IF Contains(t, "12") THEN 400
    ELSE 350

\* the iPhone branch of estimate_retail_from_title
PhoneRetail(t) ==
    IF Contains(t, "15 pro") THEN 1000
    ELSE IF Contains(t, "15") THEN 800
    ELSE IF Contains(t, "14 pro") THEN 800
    ELSE IF Contains(t, "14") THEN 600
    ELSE IF Contains(t, "13") THEN 500
    ELSE IF Contains(t, "12") THEN 400
    ELSE 350

\* Mutant: the Galaxy/Samsung family is tested before the laptop family.
estimate_retail_from_title_GalaxyFirst(title) ==
    LET t == Lower(title) IN
    IF ContainsAny(t, skip_keywords) /\ ~ContainsAny(t, main_keywords) THEN None
    ELSE IF Contains(t, "galaxy") \/ Contains(t, "samsung")
    THEN IF Contains(t, "s24") \/ Contains(t, "s23") THEN Some(700)
         ELSE IF Contains(t, "s22") \/ Contains(t, "s21") THEN Some(500)
         ELSE Some(300)
    ELSE IF ContainsAny(t, laptop_keywords) THEN Some(LaptopRetail(t))
    ELSE IF Contains(t, "iphone") THEN Some(PhoneRetail(t))
    ELSE IF Contains(t, "ipad")
    THEN IF Contains(t, "pro") THEN Some(800)
         ELSE IF Contains(t, "air") THEN Some(500)
         ELSE Some(350)
    ELSE IF Contains(t, "playstation") \/ Contains(t, "ps5") THEN Some(450)
    ELSE IF Contains(t, "xbox")
    THEN (IF Contains(t, "series x") THEN Some(450) ELSE Some(300))
    ELSE IF Contains(t, "nintendo switch")
    THEN (IF Contains(t, "oled") THEN Some(350) ELSE Some(250))
    ELSE None

\* estimate_retail_from_title: None, or Some(dollars)
estimate_retail_from_title(title) ==
    LET t == Lower(title) IN
    IF ContainsAny(t, skip_keywords) /\ ~ContainsAny(t, main_keywords) THEN None
    ELSE IF ContainsAny(t, laptop_keywords) THEN Some(LaptopRetail(t))
    ELSE IF Contains(t, "iphone") THEN Some(PhoneRetail(t))
    ELSE IF Contains(t, "galaxy") \/ Contains(t, "samsung")
    THEN IF Contains(t, "s24") \/ Contains(t, "s23") THEN Some(700)
         ELSE IF Contains(t, "s22") \/ Contains(t, "s21") THEN Some(500)
         ELSE Some(300)
    ELSE IF Contains(t, "ipad")
    THEN IF Contains(t, "pro") THEN Some(800)
         ELSE IF Contains(t, "air") THEN Some(500)
         ELSE Some(350)
    ELSE IF Contains(t, "playstation") \/ Contains(t, "ps5") THEN Some(450)
    ELSE IF Contains(t, "xbox")
    THEN (IF Contains(t, "series x") THEN Some(450) ELSE Some(300))
    ELSE IF Contains(t, "nintendo switch")
    THEN (IF Contains(t, "oled") THEN Some(350) ELSE Some(250))
    ELSE None

\* Python truth of an Optional[float]: `not retail` holds for None and for 0
Truthy(opt) == opt # None /\ opt[1] # 0

\* Mutant: an estimate under $300 is dropped as if there were none.
analyze_deal_DropsCheap(title, auction_price, shipping, condition) ==
    LET retail == estimate_retail_from_title(title) IN
    IF ~Truthy(retail) \/ retail[1] < 300 THEN None
    ELSE Some([auction_price |-> auction_price,
               shipping_cost |-> shipping,
               estimated_retail |-> Dollars(retail[1]),
               condition_modifier |-> get_condition_modifier(condition),
               platform_fee_percent |-> DefaultPlatformFeePercent])

\* analyze_deal: None, or Some(ProfitAnalysis)
analyze_deal(title, auction_price, shipping, condition) ==
    LET retail == estimate_retail_from_title(title) IN
    IF ~Truthy(retail) THEN None
    ELSE Some([auction_price |-> auction_price,
               shipping_cost |-> shipping,
               estimated_retail |-> Dollars(retail[1]),
               condition_modifier |-> get_condition_modifier(condition),
               platform_fee_percent |-> DefaultPlatformFeePercent])

\* Listing titles: the module's own test cases, the families of the
\* estimator and accessory titles.
Titles ==
    {"Dell Latitude 7490 i7-8650U 16GB", "MacBook Pro 16 M3 Pro",
     "MacBook Pro 13 2019", "MacBook Air 2020", "Lenovo ThinkPad X1 Carbon",
     "ThinkPad T480", "HP Chromebook 14", "ASUS ROG Gaming Laptop",
     "HP Pavilion Laptop", "iPhone 15 Pro Max", "iPhone 15 Plus",
     "iPhone 14 Pro 128GB", "iPhone 14 Blue", "iPhone 13 Case",
     "iPhone 12 mini", "iPhone SE", "Samsung Galaxy S23", "Galaxy S21 Ultra",
     "Samsung Monitor", "iPad Pro 11", "iPad Air 4", "iPad 9th Gen",
     "PS5 Console", "Xbox Series X", "Xbox One S", "Nintendo Switch OLED",
     "Nintendo Switch Lite", "USB-C Charger Cable", "Laptop Bag",
     "Lot of 5 Chromebooks for parts", "Vintage Desk Lamp",
     "Samsung Galaxy Book Laptop", "PS5 and Xbox One Bundle"}

\* Condition texts as the sources print them.
Conditions ==
    {"New", "Brand New", "Pre-Owned", "Used", "Used - Good", "Used - Like New",
     "Used - Acceptable", "Excellent - Refurbished", "Good - Refurbished",
     "Certified - Refurbished", "Renewed", "Salvage", "For parts",
     "Parts only - not working", "Unknown", "Police Auction - See listing",
     "Pre-Owned - Like New", "Brand New - Express Shipping"}

AuctionPrices == {0, Dollars(150), Dollars(400), Dollars(1200)}
ShippingCosts == {0, Dollars(10), Cents(1550)}

\* The values a later assignment may give a field of a ProfitAnalysis.
FieldValues ==
    [auction_price |-> {Dollars(50), Dollars(1200)},
     shipping_cost |-> {0, Dollars(10)},
     estimated_retail |-> {-Dollars(200), 0, Dollars(200), Dollars(2000)},
     condition_modifier |-> {25, 100},
     platform_fee_percent |-> {13, 15}]

\* The arguments of one call of analyze_deal.
AnalyzeInit ==
    /\ a_title \in Titles
    /\ a_price \in AuctionPrices
    /\ a_shipping \in ShippingCosts
    /\ a_condition \in Conditions
    /\ a_result = None
    /\ a_pc = "input"

\* analyze_deal is not in use.
AnalyzeIdle ==
    /\ a_title = ""
    /\ a_price = 0
    /\ a_shipping = 0
    /\ a_condition = ""
    /\ a_result = None
    /\ a_pc = "idle"

\* analysis = analyze_deal(title, auction_price, shipping, condition)
AnalyzeDeal ==
    /\ a_pc = "input"
    /\ a_result' = analyze_deal(a_title, a_price, a_shipping, a_condition)
    /\ a_pc' = "analyzed"
    /\ UNCHANGED <<a_title, a_price, a_shipping, a_condition>>

\* ProfitAnalysis is a plain (not frozen) dataclass: analysis.<field> = value
SetField ==
    /\ a_pc \in {"analyzed", "edited"}
    /\ a_result # None
    /\ \E f \in DOMAIN FieldValues : \E v \in FieldValues[f] :
          /\ a_result[1][f] # v
          /\ a_result' = Some([a_result[1] EXCEPT ![f] = v])
    /\ a_pc' = "edited"
    /\ UNCHANGED <<a_title, a_price, a_shipping, a_condition>>

-----------------------------------------------------------------------------
(* db/database.py: table seen_deals and mark_deal_seen *)

Urls == {"https://www.ebay.com/itm/111", "https://www.ebay.com/itm/222"}

\* The (price, profit, margin) arguments a call may pass: each may be omitted
\* (the parameters default to None).
Payloads ==
    { <<None, None, None>>, <<Some(10), Some(3), Some(30)>>,
      <<Some(20), Some(5), Some(25)>>, <<Some(15), None, None>>,
      <<None, Some(4), Some(40)>> }

\* The argument tuples a caller may pass to mark_deal_seen.
CallInputs ==
    { [source |-> "ebay", item_url |-> u, title |-> Some("t"),
       price |-> p[1], profit |-> p[2], margin |-> p[3], notified |-> n] :
      u \in Urls, p \in Payloads, n \in BOOLEAN }

\* int(notified)
BoolToInt(b) == IF b THEN 1 ELSE 0

\* id INTEGER PRIMARY KEY AUTOINCREMENT (rows are never deleted)
NextId(rows) ==
    IF rows = {} THEN 1
    ELSE 1 + (CHOOSE m \in {r.id : r \in rows} : \A r \in rows : r.id <= m)

\* item_url TEXT UNIQUE: the rows an insert of url conflicts with
ConflictRows(rows, url) == {r \in rows : r.item_url = url}

\* VALUES (?, ?, ?, ?, ?, ?, ?) with the column defaults of CREATE TABLE
InsertedRow(rows, a, now) ==
    [id |-> NextId(rows), source |-> a.source, item_url |-> a.item_url,
     title |-> a.title, price |-> a.price, profit |-> a.profit,
     margin |-> a.margin, first_seen |-> now, last_seen |-> now,
     notified |-> BoolToInt(a.notified)]

\* Mutant: the update stores the new call's notified flag as it is.
UpdatedRow_OverwriteNotified(r, a, now) ==
    [r EXCEPT !.last_seen = now,
              !.price = COALESCE(a.price, r.price),
              !.profit = COALESCE(a.profit, r.profit),
              !.margin = COALESCE(a.margin, r.margin),
              !.notified = BoolToInt(a.notified)]

\* Mutant: the update replaces the row, so first_seen takes its default again.
UpdatedRow_ResetFirstSeen(r, a, now) ==
    [r EXCEPT !.first_seen = now,
              !.last_seen = now,
              !.price = COALESCE(a.price, r.price),
              !.profit = COALESCE(a.profit, r.profit),
              !.margin = COALESCE(a.margin, r.margin),
              !.notified = IF BoolToInt(a.notified) = 1 THEN 1 ELSE r.notified]

\* Mutant: the update keeps the stored profit and margin.
UpdatedRow_StaleNumbers(r, a, now) ==
    [r EXCEPT !.last_seen = now,
              !.price = COALESCE(a.price, r.price),
              !.notified = IF BoolToInt(a.notified) = 1 THEN 1 ELSE r.notified]

\* ON CONFLICT(item_url) DO UPDATE SET ...
UpdatedRow(r, a, now) ==
    [r EXCEPT !.last_seen = now,
              !.price = COALESCE(a.price, r.price),
              !.profit = COALESCE(a.profit, r.profit),
              !.margin = COALESCE(a.margin, r.margin),
              !.notified = IF BoolToInt(a.notified) = 1 THEN 1 ELSE r.notified]

\* The INSERT ... ON CONFLICT statement of mark_deal_seen, on a table content.
Upsert(rows, a, now) ==
    IF ConflictRows(rows, a.item_url) = {}
    THEN rows \cup {InsertedRow(rows, a, now)}
    ELSE {IF r.item_url = a.item_url THEN UpdatedRow(r, a, now) ELSE r : r \in rows}

\* Mutant: statements of different connections run without the write lock.
CanWrite_NoLock(c) == TRUE

\* SQLite lets a statement write only once no other connection holds the
\* write lock; until then the busy handler makes the statement wait.
CanWrite(c) == db_lock = NoOne

\* mark_deal_seen is entered: get_connection() runs sqlite3.connect.
MarkConnect(c) ==
    /\ pc[c] = "idle"
    /\ ncalls < MaxCalls
    /\ \E a \in CallInputs : args' = [args EXCEPT ![c] = a]
    /\ pc' = [pc EXCEPT ![c] = "connected"]
    /\ ncalls' = ncalls + 1
    /\ UNCHANGED <<seen_deals, searches, db_lock, clock, pending, stamp, serial>>

\* cursor.execute(INSERT ... ON CONFLICT ...): the statement runs inside the
\* transaction sqlite3 opens for it, on the committed rows, under the write lock.
MarkExecute(c) ==
    /\ pc[c] = "connected"
    /\ CanWrite(c)
    /\ db_lock' = c
    /\ pending' = [pending EXCEPT ![c] = Upsert(seen_deals, args[c], clock)]
    /\ stamp' = [stamp EXCEPT ![c] = clock]
    /\ pc' = [pc EXCEPT ![c] = "executed"]
    /\ UNCHANGED <<seen_deals, searches, clock, args, ncalls, serial>>

\* conn.commit() after the yield of get_connection
MarkCommit(c) ==
    /\ pc[c] = "executed"
    /\ seen_deals' = pending[c]
    /\ db_lock' = NoOne
    /\ serial' = Upsert(serial, args[c], stamp[c])
    /\ pc' = [pc EXCEPT ![c] = "committed"]
    /\ UNCHANGED <<searches, clock, args, pending, stamp, ncalls>>

\* finally: conn.close(); mark_deal_seen returns
MarkClose(c) ==
    /\ pc[c] = "committed"
    /\ pc' = [pc EXCEPT ![c] = "idle"]
    /\ args' = [args EXCEPT ![c] = None]
    /\ pending' = [pending EXCEPT ![c] = {}]
    /\ stamp' = [stamp EXCEPT ![c] = 0]
    /\ UNCHANGED <<seen_deals, searches, db_lock, clock, ncalls, serial>>

\* a second passes
Tick ==
    /\ clock < MaxClock
    /\ clock' = clock + 1
    /\ UNCHANGED <<seen_deals, searches, db_lock, pc, args, pending, stamp,
                   ncalls, serial>>

\* init_db(): CREATE TABLE IF NOT EXISTS leaves both tables empty.
StoreInit ==
    /\ seen_deals = {}
    /\ searches = 0
    /\ db_lock = NoOne
    /\ clock = 0
    /\ pc = [c \in Callers |-> "idle"]
    /\ args = [c \in Callers |-> None]
    /\ pending = [c \in Callers |-> {}]
    /\ stamp = [c \in Callers |-> 0]
    /\ ncalls = 0
    /\ serial = {}

\* url lists a caller may pass to get_unseen_deals: any order, repeats and
\* the empty list included
UrlLists == UNION {[1..n -> Urls] : n \in 0..MaxUrls}

\* Mutant: only rows that were notified count as seen.
get_unseen_deals_NotifiedOnly(rows, item_urls) ==
    IF item_urls = <<>> THEN <<>>
    ELSE LET seen == {r.item_url : r \in {r \in rows : r.notified = 1}} IN
         SelectSeq(item_urls, LAMBDA url : url \notin seen)

\* SELECT item_url FROM seen_deals WHERE item_url IN (...), then the list
\* comprehension over item_urls
get_unseen_deals(rows, item_urls) ==
    IF item_urls = <<>> THEN <<>>
    ELSE LET seen == {r.item_url : r \in {r \in rows :
                         \E i \in 1..Len(item_urls) : r.item_url = item_urls[i]}} IN
         SelectSeq(item_urls, LAMBDA url : url \notin seen)

\* SELECT 1 FROM seen_deals WHERE item_url = ?; fetchone() is not None
is_deal_seen(rows, item_url) == \E r \in rows : r.item_url = item_url

\* One whole call of mark_deal_seen by a single caller: connect, execute,
\* commit, close.
MarkDealSeen ==
    /\ ncalls < MaxCalls
    /\ \A c \in Callers : pc[c] = "idle"
    /\ \E a \in CallInputs :
          /\ seen_deals' = Upsert(seen_deals, a, clock)
          /\ serial' = Upsert(serial, a, clock)
          /\ q_marked' = q_marked \cup {a.item_url}
    /\ ncalls' = ncalls + 1
    /\ UNCHANGED <<searches, db_lock, clock, pc, args, pending, stamp>>
    /\ UNCHANGED <<q_op, q_arg, q_result>>

\* One call of get_unseen_deals
GetUnseenDeals ==
    /\ \E item_urls \in UrlLists :
          /\ q_arg' = item_urls
          /\ q_result' = get_unseen_deals(seen_deals, item_urls)
    /\ q_op' = "get_unseen_deals"
    /\ UNCHANGED <<storeVars, q_marked>>

\* One call of is_deal_seen
IsDealSeen ==
    /\ \E item_url \in Urls :
          /\ q_arg' = item_url
          /\ q_result' = is_deal_seen(seen_deals, item_url)
    /\ q_op' = "is_deal_seen"
    /\ UNCHANGED <<storeVars, q_marked>>

\* No read of the table has been made.
QueryIdle ==
    /\ q_op = "none"
    /\ q_arg = <<>>
    /\ q_result = <<>>
    /\ q_marked = {}

-----------------------------------------------------------------------------
(* Listings the sources return (scrapers/browser.py AuctionItem) *)

Listing(url, title, price, shipping, condition, source) ==
    [url |-> url, title |-> title, price |-> price, shipping |-> shipping,
     condition |-> condition, source |-> source]

\* What eBay may show for a query.
EbayListings ==
    { Listing("https://www.ebay.com/itm/111", "MacBook Pro 16 M3 Pro",
              Dollars(400), 0, "Used", "ebay"),
      Listing("https://www.ebay.com/itm/222", "iPhone 14 Pro 128GB",
              Dollars(400), Dollars(10), "Used - Good", "ebay"),
      Listing("https://www.ebay.com/itm/333", "USB-C Charger Cable",
              Dollars(5), 0, "New", "ebay") }

\* What PropertyRoom may show for a query.
PropertyRoomListings ==
    { Listing("https://www.propertyroom.com/l/444", "Nintendo Switch Lite",
              Dollars(50), 0, "Police Auction - See listing", "propertyroom"),
      Listing("https://www.propertyroom.com/l/555", "Xbox One S",
              Dollars(150), 0, "Police Auction - See listing", "propertyroom") }

\* The lists a source can return: up to MaxItems of its listings, in any order.
ResultLists(listings) == UNION {[1..n -> listings] : n \in 0..MaxItems}

-----------------------------------------------------------------------------
(* web/app.py: the search handler *)

\* source_counts is a dict: a key that was never assigned is absent.
Absent == -1

\* The condition analyze_deal is given for an item of a source.
ConditionFor(item, source) ==
    IF source = "propertyroom" THEN "Pre-Owned" ELSE item.condition

\* Mutant: the margin threshold is not applied.
WebMeetsThresholds_ProfitOnly(a, min_profit, min_margin) ==
    profit(a) >= Dollars(min_profit)

\* analysis.profit >= min_profit and analysis.profit_margin_percent >= min_margin
WebMeetsThresholds(a, min_profit, min_margin) ==
    /\ profit(a) >= Dollars(min_profit)
    /\ FracGE(profit_margin_percent(a), min_margin)

\* The item loop of one source: the entries it appends to deals.
WebDealsOf(items, source, min_profit, min_margin) ==
    LET scored == [i \in 1..Len(items) |->
                     [item |-> [items[i] EXCEPT !.source = source],
                      analysis |-> analyze_deal(items[i].title, items[i].price,
                                                items[i].shipping,
                                                ConditionFor(items[i], source)),
                      source |-> source]]
        kept == SelectSeq(scored, LAMBDA d :
                    /\ d.analysis # None
                    /\ WebMeetsThresholds(d.analysis[1], min_profit, min_margin))
    IN [i \in 1..Len(kept) |-> [kept[i] EXCEPT !.analysis = kept[i].analysis[1]]]

\* The item loop of one source: the entries it appends to all_items.
\* Mutant: a listing that cannot be scored is not kept.
WebItemsOf_ScoredOnly(items, source) ==
    LET scored == SelectSeq(items, LAMBDA it :
                     analyze_deal(it.title, it.price, it.shipping, it.condition) # None)
    IN [i \in 1..Len(scored) |-> [scored[i] EXCEPT !.source = source]]

\* The items of a source as the loop appends them to all_items.
WebItemsOf(items, source) == [i \in 1..Len(items) |-> [items[i] EXCEPT !.source = source]]

\* f < g for fractions with positive denominators
FracLT(f, g) == f[1] * g[2] < g[1] * f[2]

\* list.sort(key=margin, reverse=True): stable, so an entry goes behind every
\* entry whose margin is not smaller.
RECURSIVE InsertByMargin(_, _)
InsertByMargin(sorted, d) ==
    IF sorted = <<>> THEN <<d>>
    ELSE IF FracLT(profit_margin_percent(sorted[1].analysis),
                   profit_margin_percent(d.analysis))
    THEN <<d>> \o sorted
    ELSE <<sorted[1]>> \o InsertByMargin(Tail(sorted), d)

RECURSIVE SortByMargin(_)
SortByMargin(ds) ==
    IF ds = <<>> THEN <<>>
    ELSE InsertByMargin(SortByMargin(SubSeq(ds, 1, Len(ds) - 1)), ds[Len(ds)])

\* The arguments of the mark_deal_seen call for an entry of deals.
MarkArgs(d) ==
    [source |-> d.source, item_url |-> d.item.url, title |-> Some(d.item.title),
     price |-> Some(d.item.price), profit |-> Some(profit(d.analysis)),
     margin |-> Some(profit_margin_percent(d.analysis)), notified |-> FALSE]

\* What search_ebay leaves open when it raises before its try block:
\* nothing when new_context raises, the context when new_page raises, the
\* context and the page when add_init_script raises.
LeftOpenBySearch == {{}, {"context"}, {"context", "page"}}

\* BrowserScraper.stop with a browser: browser.close() closes the browser and
\* with it every context and page it still has
AfterStop(open) == {}

\* where the handler goes after the eBay block
AfterEbay(params) == IF params.propertyroom # 0 THEN "pr_search" ELSE "rank"

\* The pcs at which the handler is suspended in an await.
SearchAwaiting == {"ebay_start", "ebay_search", "ebay_stop", "pr_search"}

\* `from db.database import ...` runs init_db() when the module is imported.
AppImport ==
    /\ s_pc = "import"
    /\ IF store_ok THEN s_pc' = "idle" /\ s_error' = "none"
       ELSE s_pc' = "failed" /\ s_error' = "init_db"
    /\ UNCHANGED <<store_ok, s_params, s_ebay_items, s_all_items, s_deals, s_counts,
                   s_marked, s_seen0, s_nsearch, s_open>>
    /\ UNCHANGED storeVars

\* GET /search: all_items = [], deals = [], source_counts = {}
SearchBegin ==
    /\ s_pc \in {"idle", "done"}
    /\ s_nsearch < MaxSearches
    /\ \E e \in {0, 1}, p \in {0, 1} :
          /\ s_params' = [min_profit |-> 30, min_margin |-> 25, ebay |-> e,
                          propertyroom |-> p]
          /\ s_pc' = IF e # 0 THEN "ebay_start"
                     ELSE IF p # 0 THEN "pr_search" ELSE "rank"
    /\ s_ebay_items' = <<>>
    /\ s_all_items' = <<>>
    /\ s_deals' = <<>>
    /\ s_counts' = [ebay |-> Absent, propertyroom |-> Absent]
    /\ s_marked' = 0
    /\ s_error' = "none"
    /\ s_seen0' = seen_deals
    /\ s_nsearch' = s_nsearch + 1
    /\ s_open' = {}
    /\ UNCHANGED store_ok
    /\ UNCHANGED storeVars

\* except Exception: source_counts['ebay'] = 0; scraper.stop() is not
\* called, and left is what the failed call had opened
EbayFailed(left) ==
    /\ s_open' = s_open \cup left
    /\ s_counts' = [s_counts EXCEPT !.ebay = 0]
    /\ s_pc' = AfterEbay(s_params)
    /\ s_ebay_items' = <<>>
    /\ UNCHANGED <<store_ok, s_params, s_all_items, s_deals, s_marked, s_error,
                   s_seen0, s_nsearch>>
    /\ UNCHANGED storeVars

\* await scraper.start(): the browser starts, or the launch raises
SearchEbayStart ==
    /\ s_pc = "ebay_start"
    /\ \/ /\ s_pc' = "ebay_search"
          /\ s_open' = s_open \cup {"browser"}
          /\ UNCHANGED <<store_ok, s_params, s_ebay_items, s_all_items, s_deals,
                         s_counts, s_marked, s_error, s_seen0, s_nsearch>>
          /\ UNCHANGED storeVars
       \/ EbayFailed({})

\* await scraper.search_ebay(q, max_results=20): a list comes back (empty when
\* the page failed inside search_ebay), or opening the context or page raises
SearchEbaySearch ==
    /\ s_pc = "ebay_search"
    /\ \/ /\ \E items \in ResultLists(EbayListings) : s_ebay_items' = items
          /\ s_pc' = "ebay_stop"
          /\ UNCHANGED <<store_ok, s_params, s_all_items, s_deals, s_counts,
                         s_marked, s_error, s_seen0, s_nsearch, s_open>>
          /\ UNCHANGED storeVars
       \/ \E left \in LeftOpenBySearch : EbayFailed(left)

\* await scraper.stop(), then source_counts['ebay'] = len(ebay_items) and the
\* item loop; or stop() raises
SearchEbayStop ==
    /\ s_pc = "ebay_stop"
    /\ \/ /\ s_counts' = [s_counts EXCEPT !.ebay = Len(s_ebay_items)]
          /\ s_all_items' = s_all_items \o WebItemsOf(s_ebay_items, "ebay")
          /\ s_deals' = s_deals \o WebDealsOf(s_ebay_items, "ebay",
                                              s_params.min_profit, s_params.min_margin)
          /\ s_ebay_items' = <<>>
          /\ s_pc' = AfterEbay(s_params)
          /\ s_open' = AfterStop(s_open)
          /\ UNCHANGED <<store_ok, s_params, s_marked, s_error, s_seen0, s_nsearch>>
          /\ UNCHANGED storeVars
       \/ EbayFailed({})

\* await pr_scraper.search(q, max_results=20) and the item loop; or it raises
\* and source_counts['propertyroom'] = 0
SearchPropertyRoom ==
    /\ s_pc = "pr_search"
    /\ \/ \E items \in ResultLists(PropertyRoomListings) :
             /\ s_counts' = [s_counts EXCEPT !.propertyroom = Len(items)]
             /\ s_all_items' = s_all_items \o items
             /\ s_deals' = s_deals \o WebDealsOf(items, "propertyroom",
                                                 s_params.min_profit, s_params.min_margin)
       \/ /\ s_counts' = [s_counts EXCEPT !.propertyroom = 0]
          /\ UNCHANGED <<s_all_items, s_deals>>
    /\ s_pc' = "rank"
    /\ UNCHANGED <<store_ok, s_params, s_ebay_items, s_marked, s_error, s_seen0,
                   s_nsearch, s_open>>
    /\ UNCHANGED storeVars

\* deals.sort(key=margin, reverse=True)
SearchRank ==
    /\ s_pc = "rank"
    /\ s_deals' = SortByMargin(s_deals)
    /\ s_pc' = "log"
    /\ UNCHANGED <<store_ok, s_params, s_ebay_items, s_all_items, s_counts, s_marked,
                   s_error, s_seen0, s_nsearch, s_open>>
    /\ UNCHANGED storeVars

\* log_search(q, total_sources, len(all_items), len(deals)): one INSERT, or
\* sqlite3 raises and nothing in the handler catches it
SearchLog ==
    /\ s_pc = "log"
    /\ IF store_ok /\ db_lock = NoOne
       THEN /\ searches' = searches + 1
            /\ s_pc' = "mark"
            /\ s_error' = "none"
       ELSE /\ s_pc' = "failed"
            /\ s_error' = "log_search"
            /\ UNCHANGED searches
    /\ UNCHANGED <<store_ok, s_params, s_ebay_items, s_all_items, s_deals, s_counts,
                   s_marked, s_seen0, s_nsearch, s_open>>
    /\ UNCHANGED <<seen_deals, db_lock, clock, pc, args, pending, stamp, ncalls, serial>>

\* for d in deals: mark_deal_seen(...): one pass of the loop; the call commits
\* its upsert, or sqlite3 raises and nothing in the handler catches it
SearchMark ==
    /\ s_pc = "mark"
    /\ s_marked < Len(s_deals)
    /\ IF store_ok /\ db_lock = NoOne
       THEN /\ seen_deals' = Upsert(seen_deals, MarkArgs(s_deals[s_marked + 1]), clock)
            /\ s_marked' = s_marked + 1
            /\ UNCHANGED <<s_pc, s_error>>
       ELSE /\ s_pc' = "failed"
            /\ s_error' = "mark_deal_seen"
            /\ UNCHANGED <<seen_deals, s_marked>>
    /\ UNCHANGED <<store_ok, s_params, s_ebay_items, s_all_items, s_deals, s_counts,
                   s_seen0, s_nsearch, s_open>>
    /\ UNCHANGED <<searches, db_lock, clock, pc, args, pending, stamp, ncalls, serial>>

\* the loop is over: the page is rendered and returned
SearchRespond ==
    /\ s_pc = "mark"
    /\ s_marked = Len(s_deals)
    /\ s_pc' = "done"
    /\ UNCHANGED <<store_ok, s_params, s_ebay_items, s_all_items, s_deals, s_counts,
                   s_marked, s_error, s_seen0, s_nsearch, s_open>>
    /\ UNCHANGED storeVars

\* The client goes away: the handler's task is cancelled at the await it is
\* suspended in (CancelledError is not an Exception, so no except catches it).
SearchCancel ==
    /\ s_pc \in SearchAwaiting
    /\ s_pc' = "cancelled"
    /\ UNCHANGED <<store_ok, s_params, s_ebay_items, s_all_items, s_deals, s_counts,
                   s_marked, s_error, s_seen0, s_nsearch, s_open>>
    /\ UNCHANGED storeVars

\* The database file stops being, or is again, openable and writable.
StoreToggle ==
    /\ store_ok' = ~store_ok
    /\ UNCHANGED <<s_pc, s_params, s_ebay_items, s_all_items, s_deals, s_counts,
                   s_marked, s_error, s_seen0, s_nsearch, s_open>>
    /\ UNCHANGED storeVars

\* The dashboard process is about to import its modules.
SearchInit ==
    /\ store_ok \in BOOLEAN
    /\ s_pc = "import"
    /\ s_params = [min_profit |-> 30, min_margin |-> 25, ebay |-> 1, propertyroom |-> 1]
    /\ s_ebay_items = <<>>
    /\ s_all_items = <<>>
    /\ s_deals = <<>>
    /\ s_counts = [ebay |-> Absent, propertyroom |-> Absent]
    /\ s_marked = 0
    /\ s_error = "none"
    /\ s_seen0 = {}
    /\ s_nsearch = 0
    /\ s_open = {}

\* No dashboard is running.
SearchIdle ==
    /\ store_ok = TRUE
    /\ s_pc = "off"
    /\ s_params = [min_profit |-> 30, min_margin |-> 25, ebay |-> 1, propertyroom |-> 1]
    /\ s_ebay_items = <<>>
    /\ s_all_items = <<>>
    /\ s_deals = <<>>
    /\ s_counts = [ebay |-> Absent, propertyroom |-> Absent]
    /\ s_marked = 0
    /\ s_error = "none"
    /\ s_seen0 = {}
    /\ s_nsearch = 0
    /\ s_open = {}

-----------------------------------------------------------------------------
(* scrapers/browser.py, scrapers/propertyroom.py: the extractors *)

Digits == {"0", "1", "2", "3", "4", "5", "6", "7", "8", "9"}

DigitValue(ch) ==
    CASE ch = "0" -> 0 [] ch = "1" -> 1 [] ch = "2" -> 2 [] ch = "3" -> 3
      [] ch = "4" -> 4 [] ch = "5" -> 5 [] ch = "6" -> 6 [] ch = "7" -> 7
      [] ch = "8" -> 8 [] ch = "9" -> 9

\* the index after the longest run of characters of set that starts at i
RECURSIVE RunEnd(_, _, _)
RunEnd(str, i, set) ==
    IF i <= Len(str) /\ SubSeq(str, i, i) \in set THEN RunEnd(str, i + 1, set) ELSE i

\* [\d,]+\.?\d* matched at i: the index after the match, or 0 for no match
AmountEnd(str, i) ==
    LET e == RunEnd(str, i, Digits \cup {","}) IN
    IF e = i THEN 0
    ELSE IF e <= Len(str) /\ SubSeq(str, e, e) = "." THEN RunEnd(str, e + 1, Digits)
    ELSE e

\* the value of a string of digits, read after the value acc
RECURSIVE DigitsValue(_, _)
DigitsValue(str, acc) ==
    IF str = "" THEN acc
    ELSE DigitsValue(SubSeq(str, 2, Len(str)), acc * 10 + DigitValue(SubSeq(str, 1, 1)))

\* str.replace(',', '')
RECURSIVE RemoveCommas(_)
RemoveCommas(str) ==
    IF str = "" THEN ""
    ELSE IF SubSeq(str, 1, 1) = "," THEN RemoveCommas(SubSeq(str, 2, Len(str)))
    ELSE SubSeq(str, 1, 1) \o RemoveCommas(SubSeq(str, 2, Len(str)))

\* float(m.replace(',', '')) for a match m of [\d,]+\.?\d*, as money: None
\* when float raises ValueError (no digit is left), digits beyond the fourth
\* decimal dropped
ParseAmount(m) ==
    LET t == RemoveCommas(m)
        e == RunEnd(t, 1, Digits)
        whole == SubSeq(t, 1, e - 1)
        frac == SubSeq(t, e + 1, Len(t))
        frac4 == SubSeq(frac \o "0000", 1, 4)
    IN IF whole = "" /\ frac = "" THEN None
       ELSE Some(DigitsValue(whole, 0) * MoneyUnit + DigitsValue(frac4, 0))

\* re.search(r'^\$?([\d,]+\.?\d*)\s*$', line) on a stripped line: group 1, or
\* None
MatchPriceLine(line) ==
    LET body == IF Len(line) > 0 /\ SubSeq(line, 1, 1) = "$"
                THEN SubSeq(line, 2, Len(line)) ELSE line
    IN IF AmountEnd(body, 1) = Len(body) + 1 THEN Some(body) ELSE None

\* \$\s*([\d,]+\.?\d*) matched at i: the index after the match, or 0
DollarAmountEnd(str, i) ==
    IF SubSeq(str, i, i) # "$" THEN 0
    ELSE AmountEnd(str, RunEnd(str, i + 1, {" "}))

\* the first index from i on at which \$\s*([\d,]+\.?\d*) matches, or 0
RECURSIVE FirstDollarAmount(_, _)
FirstDollarAmount(str, i) ==
    IF i > Len(str) THEN 0
    ELSE IF DollarAmountEnd(str, i) # 0 THEN i
    ELSE FirstDollarAmount(str, i + 1)

\* re.search(r'\$\s*([\d,]+\.?\d*)', text): group 1, or None
SearchDollarAmount(text) ==
    LET i == FirstDollarAmount(text, 1) IN
    IF i = 0 THEN None
    ELSE LET b == RunEnd(text, i + 1, {" "})
         IN Some(SubSeq(text, b, DollarAmountEnd(text, i) - 1))

\* the first index from i on at which [\d,]+\.?\d* matches, or 0
RECURSIVE FirstAmount(_, _)
FirstAmount(str, i) ==
    IF i > Len(str) THEN 0
    ELSE IF AmountEnd(str, i) # 0 THEN i
    ELSE FirstAmount(str, i + 1)

\* re.search(r'\$?([\d,]+\.?\d*)', line): group 1, or None
SearchAmount(line) ==
    LET i == FirstAmount(line, 1) IN
    IF i = 0 THEN None ELSE Some(SubSeq(line, i, AmountEnd(line, i) - 1))

\* `for line in lines: if ...: x = line; break`, hits being the lines that
\* pass the test: the first of them, or None
FirstOf(hits) == IF hits = <<>> THEN None ELSE Some(hits[1])

\* title[:200]
Truncate(str, n) == IF Len(str) > n THEN SubSeq(str, 1, n) ELSE str

\* What a parser finds in an item container. href: the href of the anchor the
\* parser looks for, None when there is no such anchor or it has no href;
\* lines: the stripped, non-empty lines of the container's text; title and
\* price_text: the text of the title anchor and of the price element
\* (PropertyRoom), price_text None when there is no price element; broken: a
\* call on the element raises.
Container(href, lines, title, price_text, broken) ==
    [href |-> href, lines |-> lines, title |-> title, price_text |-> price_text,
     broken |-> broken]

\* The price loop of _parse_ebay_listing from line i on, price being the
\* value so far: 0 unless a price line matched.
RECURSIVE EbayPrice(_, _, _)
EbayPrice(lines, i, price) ==
    IF i > Len(lines) THEN price
    ELSE LET m == MatchPriceLine(lines[i])
             v == IF m = None THEN None ELSE ParseAmount(m[1])
         IN IF v = None THEN EbayPrice(lines, i + 1, price)
            ELSE IF v[1] > 0 THEN v[1]
            ELSE EbayPrice(lines, i + 1, v[1])

\* The shipping block of _parse_ebay_listing: Some(amount), or None when
\* float raises
EbayShipping(lines) ==
    LET l == FirstOf(SelectSeq(lines, LAMBDA x : Contains(Lower(x), "delivery")
                                         \/ Contains(Lower(x), "shipping")))
    IN IF l = None \/ Contains(Lower(l[1]), "free") THEN Some(0)
       ELSE IF SearchAmount(l[1]) = None THEN Some(0)
       ELSE ParseAmount(SearchAmount(l[1])[1])

\* The condition block of _parse_ebay_listing
EbayCondition(lines) ==
    LET l == FirstOf(SelectSeq(lines, LAMBDA x :
                 ContainsAny(Lower(x), {"new", "used", "refurbished", "pre-owned"})))
    IN IF l = None THEN "Unknown" ELSE l[1]

\* BrowserScraper._parse_ebay_listing: None, or Some(AuctionItem)
parse_ebay_listing(c) ==
    LET url == IF c.href = None THEN "" ELSE c.href[1]
        title == FirstOf(SelectSeq(c.lines, LAMBDA x : Len(x) > 10 /\ ~Contains(x, "Opens in")))
    IN IF c.broken THEN None
       ELSE IF url = "" \/ ~Contains(url, "/itm/") THEN None
       ELSE IF c.lines = <<>> \/ (\E i \in 1..Len(c.lines) : Contains(c.lines[i], "Shop on eBay"))
       THEN None
       ELSE IF title = None THEN None
       ELSE IF EbayShipping(c.lines) = None THEN None
       ELSE Some(Listing(url, Truncate(title[1], 200), EbayPrice(c.lines, 1, 0),
                         EbayShipping(c.lines)[1], EbayCondition(c.lines), "ebay"))

\* search_ebay: `if item: if item.price > 0: items.append(item)`
keeps_ebay_item(item) == item # None /\ item[1].price > 0

\* PropertyRoomScraper._parse_listing: None, or Some(AuctionItem)
parse_listing(c) ==
    LET href == IF c.href = None THEN "" ELSE c.href[1]
        url == IF Len(href) > 0 /\ SubSeq(href, 1, 1) = "/"
               THEN "https://www.propertyroom.com" \o href ELSE href
        m == IF c.price_text = None THEN None ELSE SearchDollarAmount(c.price_text[1])
        price == IF m = None THEN Some(0) ELSE ParseAmount(m[1])
    IN IF c.broken \/ c.title = None THEN None
       ELSE IF price = None THEN None
       ELSE Some(Listing(url, Truncate(c.title[1], 200), price[1], 0,
                         "Police Auction - See listing", "propertyroom"))

\* len(card_text) for a text that has no whitespace but what separates lines
RECURSIVE TextLen(_)
TextLen(lines) ==
    IF lines = <<>> THEN 0
    ELSE Len(lines[1]) + (IF Len(lines) > 1 THEN 1 ELSE 0) + TextLen(Tail(lines))

\* str.startswith(prefix)
StartsWith(str, prefix) ==
    Len(str) >= Len(prefix) /\ SubSeq(str, 1, Len(prefix)) = prefix

\* The price loop of the GovDeals and Liquidation.com parsers from line i
\* on: the first dollar amount float accepts, or 0.
RECURSIVE DollarPrice(_, _)
DollarPrice(lines, i) ==
    IF i > Len(lines) THEN 0
    ELSE LET m == SearchDollarAmount(lines[i])
             v == IF m = None THEN None ELSE ParseAmount(m[1])
         IN IF v = None THEN DollarPrice(lines, i + 1) ELSE v[1]

\* BrowserScraper._parse_govdeals_listing: None, or Some(AuctionItem)
parse_govdeals_listing(c) ==
    LET t == FirstOf(SelectSeq(c.lines, LAMBDA x : Len(x) > 15 /\ ~StartsWith(x, "$")))
        title == IF t # None THEN t[1]
                 ELSE IF c.lines # <<>> THEN c.lines[1] ELSE "Unknown"
        href == IF c.href = None THEN "" ELSE c.href[1]
        url == IF StartsWith(href, "/") THEN "https://www.govdeals.com" \o href ELSE href
    IN IF c.broken \/ TextLen(c.lines) < 10 THEN None
       ELSE Some(Listing(url, Truncate(title, 200), DollarPrice(c.lines, 1), 0,
                         "See listing", "govdeals"))

\* BrowserScraper._parse_liquidation_listing: None, or Some(AuctionItem)
parse_liquidation_listing(c) ==
    LET t == FirstOf(SelectSeq(c.lines, LAMBDA x : Len(x) > 20 /\ ~StartsWith(x, "$")
                                           /\ ~StartsWith(x, "Bid")))
        title == IF t # None THEN t[1]
                 ELSE IF c.lines # <<>> THEN c.lines[1] ELSE "Unknown Lot"
        href == IF c.href = None THEN "" ELSE c.href[1]
        url == IF href = "" \/ ~Contains(href, "/auction/") THEN ""
               ELSE IF StartsWith(href, "http") THEN href
               ELSE "https://www.liquidation.com" \o href
        cond == FirstOf(SelectSeq(c.lines, LAMBDA x :
                   ContainsAny(Lower(x), {"new", "refurb", "used", "salvage",
                                          "customer return"})))
    IN IF c.broken \/ TextLen(c.lines) < 10 THEN None
       ELSE Some(Listing(url, Truncate(title, 200), DollarPrice(c.lines, 1), 0,
                         IF cond = None THEN "See manifest" ELSE Truncate(cond[1], 50),
                         "liquidation"))

\* search_govdeals, search_liquidation: `if item and item.title`
keeps_titled_item(item) == item # None /\ item[1].title # ""

\* The item containers eBay's result page may hold.
EbayCards ==
    { Container(Some("https://www.ebay.com/itm/111?hash=a"),
                <<"MacBook Pro 16 M3 Pro", "Pre-Owned", "$400.00", "+$15.50 delivery">>,
                None, None, FALSE),
      Container(Some("https://www.ebay.com/itm/444"),
                <<"Xbox One S 500GB Console", "$1,150.00", "Free delivery">>,
                None, None, FALSE),
      Container(Some("https://www.ebay.com/itm/222"),
                <<"iPhone 14 Pro 128GB", "Brand New", "or Best Offer">>,
                None, None, FALSE),
      Container(None, <<"Dell Latitude 7490 i7-8650U 16GB", "$150.00">>,
                None, None, FALSE),
      Container(Some("https://www.ebay.com/itm/333"), <<"Shop on eBay", "$20.00">>,
                None, None, FALSE),
      Container(Some("https://www.ebay.com/itm/555"), <<"PS5 Console">>,
                None, None, TRUE) }

\* The item containers PropertyRoom's result page may hold.
PropertyRoomCards ==
    { Container(Some("/l/444"), <<>>, Some("Nintendo Switch Lite"),
                Some("Current Price: $50.00"), FALSE),
      Container(None, <<>>, Some("Xbox One S"), Some("$150.00"), FALSE),
      Container(Some("/l/555"), <<>>, Some("HP Pavilion Laptop"), None, FALSE),
      Container(Some("/l/666"), <<>>, Some(""), Some("$5.00"), FALSE),
      Container(None, <<>>, None, Some("$75.00"), FALSE),
      Container(Some("/l/777"), <<>>, Some("iPad Air 4"), Some("$90.00"), TRUE) }

\* The item containers GovDeals' result page may hold.
GovDealsCards ==
    { Container(Some("/asset/12/345"),
                <<"Dell Latitude 7490 Laptop Lot", "Current Bid: $150.00", "Closes in 2 days">>,
                None, None, FALSE),
      Container(None, <<"Surplus office chairs, lot of 10", "$25.00">>,
                None, None, FALSE),
      Container(Some("/asset/9/1"), <<"Sold">>, None, None, FALSE),
      Container(Some("/asset/9/2"), <<"Ford F-150 Pickup Truck 2012">>,
                None, None, TRUE) }

\* The item containers Liquidation.com's result page may hold.
LiquidationCards ==
    { Container(Some("/auction/view?id=77"),
                <<"Lot of 20 Samsung Galaxy S21 phones", "Current Bid: $500.00",
                  "Customer Returns">>, None, None, FALSE),
      Container(Some("/lot/9"), <<"Pallet of assorted laptop chargers", "$40.00">>,
                None, None, FALSE),
      Container(Some("/auction/view?id=78"), <<"Closed">>, None, None, FALSE),
      Container(Some("/auction/view?id=79"), <<"Pallet of HP Chromebook 14 units">>,
                None, None, TRUE) }

ExtractSources == {"ebay", "propertyroom", "govdeals", "liquidation"}

CardsOf(source) ==
    CASE source = "ebay" -> EbayCards
      [] source = "propertyroom" -> PropertyRoomCards
      [] source = "govdeals" -> GovDealsCards
      [] source = "liquidation" -> LiquidationCards

\* The values of max_results a search is given.
MaxResultsValues == {2, 20}

\* what the source's parser makes of a container
ParseOf(source, c) ==
    CASE source = "ebay" -> parse_ebay_listing(c)
      [] source = "propertyroom" -> parse_listing(c)
      [] source = "govdeals" -> parse_govdeals_listing(c)
      [] source = "liquidation" -> parse_liquidation_listing(c)

\* whether the source's loop appends what the parser returned
KeptBy(source, item) ==
    IF source = "ebay" THEN keeps_ebay_item(item) ELSE keeps_titled_item(item)

\* len(listings[:max_results])
SliceLen(listings, max_results) ==
    IF Len(listings) < max_results THEN Len(listings) ELSE max_results

\* Mutant: the loop ends at the first container that gives no item.
NextAttempt_StopsOnFailure(attempts, item, n) == IF item = None THEN n ELSE attempts + 1

\* `for listing in listings[:max_results]`: the loop goes on to the next
\* container, also after `continue` in the except clause
NextAttempt(attempts, item, n) == attempts + 1

\* One pass of the loop `for listing in listings[:max_results]` of source.
ExtractPass(source) ==
    /\ x_pc = "loop"
    /\ x_source = source
    /\ x_attempts < SliceLen(x_listings, x_max_results)
    /\ LET item == ParseOf(source, x_listings[x_attempts + 1]) IN
          /\ x_attempts' = NextAttempt(x_attempts, item,
                                       SliceLen(x_listings, x_max_results))
          /\ IF KeptBy(source, item)
             THEN /\ x_items' = Append(x_items, item[1])
                  /\ x_from' = Append(x_from, x_attempts + 1)
             ELSE UNCHANGED <<x_items, x_from>>
    /\ UNCHANGED <<x_pc, x_source, x_listings, x_max_results>>

\* BrowserScraper.search_ebay: one pass of the item loop
ExtractEbay == ExtractPass("ebay")

\* PropertyRoomScraper.search: one pass of the item loop
ExtractPropertyRoom == ExtractPass("propertyroom")

\* BrowserScraper.search_govdeals: one pass of the item loop
ExtractGovDeals == ExtractPass("govdeals")

\* BrowserScraper.search_liquidation: one pass of the item loop
ExtractLiquidation == ExtractPass("liquidation")

\* the loop is over: return items
ExtractReturn ==
    /\ x_pc = "loop"
    /\ x_attempts >= SliceLen(x_listings, x_max_results)
    /\ x_pc' = "returned"
    /\ UNCHANGED <<x_source, x_listings, x_max_results, x_attempts, x_items, x_from>>

\* A search has loaded its page and found the containers: items = []
ExtractInit ==
    /\ x_pc = "loop"
    /\ x_source \in ExtractSources
    /\ x_listings \in UNION {[1..n -> CardsOf(x_source)] : n \in 0..MaxContainers}
    /\ x_max_results \in MaxResultsValues
    /\ x_attempts = 0
    /\ x_items = <<>>
    /\ x_from = <<>>

\* No extractor is in use.
ExtractIdle ==
    /\ x_pc = "off"
    /\ x_source = "ebay"
    /\ x_listings = <<>>
    /\ x_max_results = 20
    /\ x_attempts = 0
    /\ x_items = <<>>
    /\ x_from = <<>>

-----------------------------------------------------------------------------
(* hunt.py: hunt_deals *)

\* Mutant: no upper bound on the margin.
HuntIsGoodDeal_NoMaxMargin(a, min_profit, min_margin, max_margin) ==
    /\ profit(a) >= Dollars(min_profit)
    /\ FracGE(profit_margin_percent(a), min_margin)

\* _is_good_deal
HuntIsGoodDeal(a, min_profit, min_margin, max_margin) ==
    /\ profit(a) >= Dollars(min_profit)
    /\ FracGE(profit_margin_percent(a), min_margin)
    /\ FracLE(profit_margin_percent(a), max_margin)

\* The item loop of one source: the DealResults it appends to deals.
HuntDealsOf(items, source, min_profit, min_margin, max_margin) ==
    LET scored == [i \in 1..Len(items) |->
                     [item |-> [items[i] EXCEPT !.source = source],
                      analysis |-> analyze_deal(items[i].title, items[i].price,
                                                items[i].shipping,
                                                ConditionFor(items[i], source)),
                      source |-> source]]
        kept == SelectSeq(scored, LAMBDA d :
                    /\ d.analysis # None
                    /\ HuntIsGoodDeal(d.analysis[1], min_profit, min_margin, max_margin))
    IN [i \in 1..Len(kept) |-> [kept[i] EXCEPT !.analysis = kept[i].analysis[1]]]

\* What eBay may show to hunt_deals: the listings above and a laptop whose
\* margin equals the MacBook's at half its profit.
HuntEbayListings ==
    EbayListings \cup
    { Listing("https://www.ebay.com/itm/666", "ASUS ROG Gaming Laptop",
              Dollars(200), 0, "Used", "ebay"),
      Listing("https://www.ebay.com/itm/777", "HP Chromebook 14",
              Dollars(124), 0, "New", "ebay") }

\* The thresholds hunt_deals may be called with.
HuntMinProfits == {30, 100}
HuntMaxMargins == {50, 100}

\* where hunt_deals goes after the eBay block
HuntAfterEbay(params) == IF "propertyroom" \in params.sources THEN "pr" ELSE "sort"

\* hunt_deals(query, ...): all_items = [], deals = [], source_stats = {}
HuntBegin ==
    /\ h_pc = "idle"
    /\ \E srcs \in SUBSET {"ebay", "propertyroom"}, mp \in HuntMinProfits,
          mm \in HuntMaxMargins :
          /\ h_params' = [sources |-> srcs, min_profit |-> mp, min_margin |-> 25,
                          max_margin |-> mm]
          /\ h_pc' = IF "ebay" \in srcs THEN "start"
                     ELSE IF "propertyroom" \in srcs THEN "pr" ELSE "sort"
    /\ UNCHANGED <<h_all_items, h_deals, h_stats, h_raising, h_fault, h_got, h_events,
                   h_open>>

\* await browser_scraper.start(), inside the outer try only: the browser
\* starts, or the launch raises and the exception leaves the try block
HuntBrowserStart ==
    /\ h_pc = "start"
    /\ \/ /\ h_pc' = "ebay"
          /\ h_open' = {"browser"}
          /\ UNCHANGED <<h_raising, h_fault>>
       \/ /\ h_pc' = "stop"
          /\ h_raising' = TRUE
          /\ h_fault' = [h_fault EXCEPT !.ebay = "start"]
          /\ UNCHANGED h_open
    /\ UNCHANGED <<h_params, h_all_items, h_deals, h_stats, h_got, h_events>>

\* The eBay block: search_ebay returns its list, and the item loop runs; or
\* the page fails inside search_ebay (navigation, timeout, parsing), which
\* search_ebay catches, returning []; or opening the context or the page
\* raises and the except sets source_stats['ebay'] = 0. search_ebay closes
\* its page and context in its finally; what it had opened before its try
\* block stays open when it raises there.
HuntEbay ==
    /\ h_pc = "ebay"
    /\ \/ \E items \in ResultLists(HuntEbayListings) :
             /\ h_stats' = [h_stats EXCEPT !.ebay = Len(items)]
             /\ h_all_items' = h_all_items \o WebItemsOf(items, "ebay")
             /\ h_deals' = h_deals \o HuntDealsOf(items, "ebay", h_params.min_profit,
                                                  h_params.min_margin, h_params.max_margin)
             /\ h_got' = [h_got EXCEPT !.ebay = items]
             /\ UNCHANGED <<h_fault, h_open>>
       \/ /\ h_stats' = [h_stats EXCEPT !.ebay = Len(<<>>)]
          /\ h_fault' = [h_fault EXCEPT !.ebay = "navigation"]
          /\ UNCHANGED <<h_all_items, h_deals, h_got, h_open>>
       \/ /\ h_stats' = [h_stats EXCEPT !.ebay = 0]
          /\ h_fault' = [h_fault EXCEPT !.ebay = "context"]
          /\ \E left \in LeftOpenBySearch : h_open' = h_open \cup left
          /\ UNCHANGED <<h_all_items, h_deals, h_got>>
    /\ h_events' = h_events \o <<"ebay issued", "ebay completed">>
    /\ h_pc' = HuntAfterEbay(h_params)
    /\ UNCHANGED <<h_params, h_raising>>

\* The PropertyRoom block: search returns its list, and the item loop runs;
\* or the HTTP request fails inside search, which catches it, returning [];
\* or search raises and the except sets source_stats['propertyroom'] = 0
HuntPropertyRoom ==
    /\ h_pc = "pr"
    /\ \/ \E items \in ResultLists(PropertyRoomListings) :
             /\ h_stats' = [h_stats EXCEPT !.propertyroom = Len(items)]
             /\ h_all_items' = h_all_items \o items
             /\ h_deals' = h_deals \o HuntDealsOf(items, "propertyroom",
                                                  h_params.min_profit, h_params.min_margin,
                                                  h_params.max_margin)
             /\ h_got' = [h_got EXCEPT !.propertyroom = items]
             /\ UNCHANGED h_fault
       \/ /\ h_stats' = [h_stats EXCEPT !.propertyroom = Len(<<>>)]
          /\ h_fault' = [h_fault EXCEPT !.propertyroom = "http"]
          /\ UNCHANGED <<h_all_items, h_deals, h_got>>
       \/ /\ h_stats' = [h_stats EXCEPT !.propertyroom = 0]
          /\ h_fault' = [h_fault EXCEPT !.propertyroom = "client"]
          /\ UNCHANGED <<h_all_items, h_deals, h_got>>
    /\ h_events' = h_events \o <<"propertyroom issued", "propertyroom completed">>
    /\ h_pc' = "sort"
    /\ UNCHANGED <<h_params, h_raising, h_open>>

\* deals.sort(key=margin, reverse=True)
HuntSort ==
    /\ h_pc = "sort"
    /\ h_deals' = SortByMargin(h_deals)
    /\ h_pc' = "stop"
    /\ UNCHANGED <<h_params, h_all_items, h_stats, h_raising, h_fault, h_got, h_events,
                   h_open>>

\* finally: await browser_scraper.stop(); then the result dict is returned,
\* or the exception that left the try block goes on to the caller
HuntStop ==
    /\ h_pc = "stop"
    /\ h_pc' = IF h_raising THEN "raised" ELSE "returned"
    /\ h_open' = IF "ebay" \in h_params.sources THEN AfterStop(h_open) ELSE h_open
    /\ UNCHANGED <<h_params, h_all_items, h_deals, h_stats, h_raising, h_fault, h_got,
                   h_events>>

\* Mutant: total_items counts the deals.
HuntResult_TotalIsDeals ==
    [total_items |-> Len(h_deals),
     deals_found |-> Len(h_deals),
     min_profit |-> h_params.min_profit,
     min_margin |-> h_params.min_margin,
     source_stats |-> h_stats,
     deals |-> h_deals,
     all_items |-> h_all_items]

\* The dict hunt_deals returns.
HuntResult ==
    [total_items |-> Len(h_all_items),
     deals_found |-> Len(h_deals),
     min_profit |-> h_params.min_profit,
     min_margin |-> h_params.min_margin,
     source_stats |-> h_stats,
     deals |-> h_deals,
     all_items |-> h_all_items]

\* hunt_deals has not been called.
HuntInit ==
    /\ h_pc = "idle"
    /\ h_params = [sources |-> {}, min_profit |-> 30, min_margin |-> 25,
                   max_margin |-> 100]
    /\ h_all_items = <<>>
    /\ h_deals = <<>>
    /\ h_stats = [ebay |-> Absent, propertyroom |-> Absent]
    /\ h_raising = FALSE
    /\ h_fault = [ebay |-> "none", propertyroom |-> "none"]
    /\ h_got = [ebay |-> <<>>, propertyroom |-> <<>>]
    /\ h_events = <<>>
    /\ h_open = {}

\* hunt_deals is not in use.
HuntIdle ==
    /\ h_pc = "off"
    /\ h_params = [sources |-> {}, min_profit |-> 30, min_margin |-> 25,
                   max_margin |-> 100]
    /\ h_all_items = <<>>
    /\ h_deals = <<>>
    /\ h_stats = [ebay |-> Absent, propertyroom |-> Absent]
    /\ h_raising = FALSE
    /\ h_fault = [ebay |-> "none", propertyroom |-> "none"]
    /\ h_got = [ebay |-> <<>>, propertyroom |-> <<>>]
    /\ h_events = <<>>
    /\ h_open = {}

-----------------------------------------------------------------------------
(* notifications/telegram.py: TelegramNotifier *)

\* the index at which sub first occurs in s, or 0
IndexOf(s, sub) ==
    IF Contains(s, sub)
    THEN CHOOSE i \in 1..(Len(s) - Len(sub) + 1) :
            /\ SubSeq(s, i, i + Len(sub) - 1) = sub
            /\ \A j \in 1..(i - 1) : SubSeq(s, j, j + Len(sub) - 1) # sub
    ELSE 0

\* s.split(sep)[0]
SplitFirst(s, sep) ==
    IF Contains(s, sep) THEN SubSeq(s, 1, IndexOf(s, sep) - 1) ELSE s

\* s.split(sep)[1], for s that contains sep
SplitSecond(s, sep) ==
    SplitFirst(SubSeq(s, IndexOf(s, sep) + Len(sep), Len(s)), sep)

\* TelegramNotifier._get_item_id
get_item_id(url) ==
    IF Contains(url, "/itm/") THEN SplitFirst(SplitSecond(url, "/itm/"), "?") ELSE url

\* Mutant: the url itself is looked up in sent_deals.
should_notify_ByUrl(sent_deals, url) == url \notin sent_deals

\* TelegramNotifier.should_notify
should_notify(sent_deals, url) == get_item_id(url) \notin sent_deals

\* TelegramNotifier.mark_sent: the new sent_deals
mark_sent(sent_deals, url) == sent_deals \cup {get_item_id(url)}

\* The urls a notifier may be asked about: item urls with and without a
\* query string, and a url of another site.
NotifierUrls ==
    {"https://www.ebay.com/itm/111", "https://www.ebay.com/itm/111?hash=item1",
     "https://www.ebay.com/itm/222", "https://www.ebay.com/itm/222?_trkparms=x",
     "https://www.propertyroom.com/l/444"}

\* One call of notifier.should_notify(url)
ShouldNotify ==
    /\ \E url \in NotifierUrls :
          /\ t_arg' = url
          /\ t_result' = should_notify(t_sent_deals, url)
    /\ t_op' = "should_notify"
    /\ UNCHANGED <<t_sent_deals, t_marked, t_alerted>>

\* One call of notifier.mark_sent(url)
MarkSent ==
    /\ \E url \in NotifierUrls :
          /\ t_arg' = url
          /\ t_sent_deals' = mark_sent(t_sent_deals, url)
          /\ t_marked' = t_marked \cup {url}
    /\ t_op' = "mark_sent"
    /\ UNCHANGED <<t_result, t_alerted>>

\* The alert of hunt_with_notifications for one deal, with notify_individual:
\* `if notifier.should_notify(item.url)`: the message is printed and
\* notifier.mark_sent(item.url) is called
AlertDeal ==
    /\ \E url \in NotifierUrls :
          /\ t_arg' = url
          /\ t_result' = should_notify(t_sent_deals, url)
          /\ IF should_notify(t_sent_deals, url)
             THEN /\ t_alerted' = Append(t_alerted, url)
                  /\ t_sent_deals' = mark_sent(t_sent_deals, url)
                  /\ t_marked' = t_marked \cup {url}
             ELSE UNCHANGED <<t_alerted, t_sent_deals, t_marked>>
    /\ t_op' = "alert"

\* TelegramNotifier(): self.sent_deals = set()
NotifierInit ==
    /\ t_sent_deals = {}
    /\ t_op = "none"
    /\ t_arg = ""
    /\ t_result = TRUE
    /\ t_marked = {}
    /\ t_alerted = <<>>

\* No notifier of this kind is in use.
NotifierIdle == NotifierInit

-----------------------------------------------------------------------------
(* hunt_telegram.py: hunt_with_notifications *)

\* What eBay may show to the command: the listings above, one of them also
\* under a url that carries a query string.
NotifyListings ==
    EbayListings \cup
    { Listing("https://www.ebay.com/itm/111?hash=item1", "MacBook Pro 16 M3 Pro",
              Dollars(400), 0, "Used", "ebay") }

NotifyUrls == {l.url : l \in NotifyListings}

\* The for loop over items, from item i on: the state it leaves behind.
RECURSIVE NotifyLoop(_, _, _, _)
NotifyLoop(items, i, params, st) ==
    IF i > Len(items) THEN st
    ELSE
        LET item == items[i]
            analysis == analyze_deal(item.title, item.price, item.shipping, item.condition)
            isDeal == analysis # None /\ profit(analysis[1]) >= Dollars(params.min_profit)
            alert == isDeal /\ params.notify_individual
                            /\ should_notify(st.sent_deals, item.url)
        IN NotifyLoop(items, i + 1, params,
              [all_items |-> Append(st.all_items, item),
               deals |-> IF isDeal
                         THEN Append(st.deals, [item |-> item, analysis |-> analysis[1]])
                         ELSE st.deals,
               sent_deals |-> IF alert THEN mark_sent(st.sent_deals, item.url)
                              ELSE st.sent_deals,
               alerts |-> IF alert
                          THEN [st.alerts EXCEPT ![item.url] = @ + 1]
                          ELSE st.alerts])

\* deals.sort(key=profit, reverse=True): stable
RECURSIVE InsertByProfit(_, _)
InsertByProfit(sorted, d) ==
    IF sorted = <<>> THEN <<d>>
    ELSE IF profit(sorted[1].analysis) < profit(d.analysis) THEN <<d>> \o sorted
    ELSE <<sorted[1]>> \o InsertByProfit(Tail(sorted), d)

RECURSIVE SortByProfit(_)
SortByProfit(ds) ==
    IF ds = <<>> THEN <<>>
    ELSE InsertByProfit(SortByProfit(SubSeq(ds, 1, Len(ds) - 1)), ds[Len(ds)])

\* the process has not exited
Running == -1

\* main() calls hunt_with_notifications: notifier = TelegramNotifier() with an
\* empty sent_deals, scraper = BrowserScraper(), deals = [], all_items = []
NotifyBegin ==
    /\ n_pc \in {"idle", "returned", "raised"}
    /\ n_runs < MaxRuns
    /\ \E ni \in BOOLEAN : n_params' = [notify_individual |-> ni, min_profit |-> 30]
    /\ n_sent_deals' = {}
    /\ n_all_items' = <<>>
    /\ n_deals' = <<>>
    /\ n_raising' = FALSE
    /\ n_pc' = "start"
    /\ n_runs' = n_runs + 1
    /\ n_exit' = Running
    /\ UNCHANGED n_alerts

\* await scraper.start(): the browser starts, or the launch raises
NotifyStart ==
    /\ n_pc = "start"
    /\ \/ n_pc' = "search" /\ UNCHANGED n_raising
       \/ n_pc' = "stop" /\ n_raising' = TRUE
    /\ UNCHANGED <<n_params, n_sent_deals, n_all_items, n_deals, n_alerts, n_runs,
                   n_exit>>

\* items = await scraper.search_ebay(query, max_results) and the for loop over
\* items; or search_ebay raises
NotifySearch ==
    /\ n_pc = "search"
    /\ \/ \E items \in ResultLists(NotifyListings) :
             LET st == NotifyLoop(items, 1, n_params,
                          [all_items |-> <<>>, deals |-> <<>>,
                           sent_deals |-> n_sent_deals, alerts |-> n_alerts])
             IN /\ n_all_items' = st.all_items
                /\ n_deals' = st.deals
                /\ n_sent_deals' = st.sent_deals
                /\ n_alerts' = st.alerts
                /\ n_pc' = "summary"
                /\ UNCHANGED n_raising
       \/ /\ n_pc' = "stop"
          /\ n_raising' = TRUE
          /\ UNCHANGED <<n_sent_deals, n_all_items, n_deals, n_alerts>>
    /\ UNCHANGED <<n_params, n_runs, n_exit>>

\* deals.sort(key=profit, reverse=True) and the summary
NotifySummary ==
    /\ n_pc = "summary"
    /\ n_deals' = SortByProfit(n_deals)
    /\ n_pc' = "stop"
    /\ UNCHANGED <<n_params, n_sent_deals, n_all_items, n_raising, n_alerts, n_runs,
                   n_exit>>

\* main(): sys.exit(0 if results['deals_found'] > 0 else 1); an exception that
\* leaves asyncio.run is not caught, and the interpreter exits with status 1
ExitStatus(raising, deals) ==
    IF raising THEN 1 ELSE IF Len(deals) > 0 THEN 0 ELSE 1

\* finally: await scraper.stop(); then the result is returned, or the
\* exception goes on to main(); main() exits
NotifyStop ==
    /\ n_pc = "stop"
    /\ n_pc' = IF n_raising THEN "raised" ELSE "returned"
    /\ n_exit' = ExitStatus(n_raising, n_deals)
    /\ UNCHANGED <<n_params, n_sent_deals, n_all_items, n_deals, n_raising, n_alerts,
                   n_runs>>

\* The command has not been run.
NotifyInit ==
    /\ n_pc = "idle"
    /\ n_params = [notify_individual |-> FALSE, min_profit |-> 30]
    /\ n_sent_deals = {}
    /\ n_all_items = <<>>
    /\ n_deals = <<>>
    /\ n_raising = FALSE
    /\ n_alerts = [u \in NotifyUrls |-> 0]
    /\ n_runs = 0
    /\ n_exit = Running

\* The command is not in use.
NotifyIdle ==
    /\ n_pc = "off"
    /\ n_params = [notify_individual |-> FALSE, min_profit |-> 30]
    /\ n_sent_deals = {}
    /\ n_all_items = <<>>
    /\ n_deals = <<>>
    /\ n_raising = FALSE
    /\ n_alerts = [u \in NotifyUrls |-> 0]
    /\ n_runs = 0
    /\ n_exit = Running

-----------------------------------------------------------------------------
(* scrapers/browser.py: the container matchers of search_ebay *)

\* selectors = [...], in the order the loop tries them
Selectors == <<".srp-results .s-card", ".s-card.s-card--horizontal", "div.s-card">>

\* A card of the result page. href: the href of its item link, None when it
\* has no such link; matches: the positions of the selectors it matches, none
\* for a link outside any card; broken: a call on the card's handle raises.
PageCard(href, matches, broken) == [href |-> href, matches |-> matches, broken |-> broken]

\* The cards eBay's result page may hold: real items, the placeholder item,
\* cards without an item link. Every `.srp-results .s-card` and every
\* `.s-card.s-card--horizontal` that is a div is also a `div.s-card`.
PageCards ==
    { PageCard(h, m, b) :
        h \in {None, Some("https://www.ebay.com/itm/123456?hash=p"),
               Some("https://www.ebay.com/itm/111?hash=a"),
               Some("https://www.ebay.com/itm/222")},
        m \in {{}, {1, 3}, {2, 3}, {3}},
        b \in BOOLEAN } \ {PageCard(None, {}, b) : b \in BOOLEAN}

\* The text of a card that shows a priced item.
CardLines == <<"MacBook Pro 16 M3 Pro", "Pre-Owned", "$400.00", "Free delivery">>

\* `if href and '/123456' not in href`
RealItemLink(href) == href # None /\ href[1] # "" /\ ~Contains(href[1], "/123456")

\* The loop `for card in found` of selector sel from card i on: the listings
\* it leaves and whether a call raised.
RECURSIVE FilterCards(_, _, _, _)
FilterCards(found, i, sel, listings) ==
    IF i > Len(found) THEN [listings |-> listings, raised |-> FALSE]
    ELSE IF found[i].broken THEN [listings |-> listings, raised |-> TRUE]
    ELSE IF RealItemLink(found[i].href)
    THEN FilterCards(found, i + 1, sel,
                     Append(listings, [card |-> found[i], selector |-> sel]))
    ELSE FilterCards(found, i + 1, sel, listings)

\* page.query_selector_all(selector)
FoundBy(page, sel) == SelectSeq(page, LAMBDA c : sel \in c.matches)

\* The fallback loop `for link in links` from link i on: the listings it
\* leaves. A card whose handle cannot be got is passed over.
RECURSIVE FallbackCards(_, _, _, _)
FallbackCards(links, i, seen, listings) ==
    IF i > Len(links) THEN listings
    ELSE LET href == links[i].href[1]
             item_id == SplitFirst(SplitSecond(href, "/itm/"), "?")
         IN IF Contains(href, "/123456") THEN FallbackCards(links, i + 1, seen, listings)
            ELSE IF item_id = "" \/ item_id \in seen
            THEN FallbackCards(links, i + 1, seen, listings)
            ELSE FallbackCards(links, i + 1, seen \cup {item_id},
                    IF links[i].broken THEN listings
                    ELSE Append(listings, [card |-> links[i], selector |-> 0]))

\* The loop `for listing in listings[:max_results]` with the default
\* max_results: the items appended.
RECURSIVE ItemsOfListings(_, _)
ItemsOfListings(listings, i) ==
    IF i > Len(listings) THEN <<>>
    ELSE LET c == listings[i].card
             item == parse_ebay_listing(Container(c.href, CardLines, None, None, c.broken))
         IN (IF keeps_ebay_item(item) THEN <<item[1]>> ELSE <<>>)
               \o ItemsOfListings(listings, i + 1)

\* One pass of `for selector in selectors`: wait_for_selector times out when
\* nothing matches; a call that raises ends the pass by `except: continue`
\* with what was appended so far.
TrySelector ==
    /\ m_pc = "selectors"
    /\ LET found == FoundBy(m_page, m_sel)
           r == FilterCards(found, 1, m_sel, m_listings)
           break == found # <<>> /\ ~r.raised /\ r.listings # <<>>
       IN /\ m_listings' = IF found = <<>> THEN m_listings ELSE r.listings
          /\ IF break THEN m_pc' = "parse" /\ UNCHANGED m_sel
             ELSE IF m_sel < Len(Selectors) THEN m_sel' = m_sel + 1 /\ UNCHANGED m_pc
             ELSE /\ m_pc' = IF m_listings' = <<>> THEN "fallback" ELSE "parse"
                  /\ UNCHANGED m_sel
    /\ UNCHANGED <<m_page, m_items, m_fallback>>

\* `if not listings`: the cards of the item links
Fallback ==
    /\ m_pc = "fallback"
    /\ m_listings' = FallbackCards(SelectSeq(m_page, LAMBDA c : c.href # None),
                                   1, {}, m_listings)
    /\ m_fallback' = TRUE
    /\ m_pc' = "parse"
    /\ UNCHANGED <<m_page, m_sel, m_items>>

\* the item loop, and return items
ParseListings ==
    /\ m_pc = "parse"
    /\ m_items' = ItemsOfListings(m_listings, 1)
    /\ m_pc' = "returned"
    /\ UNCHANGED <<m_page, m_sel, m_listings, m_fallback>>

\* search_ebay has loaded the result page: listings = []
MatchInit ==
    /\ m_pc = "selectors"
    /\ m_page \in UNION {[1..n -> PageCards] : n \in 0..MaxCards}
    /\ m_sel = 1
    /\ m_listings = <<>>
    /\ m_items = <<>>
    /\ m_fallback = FALSE

\* search_ebay is not in use.
MatchIdle ==
    /\ m_pc = "off"
    /\ m_page = <<>>
    /\ m_sel = 1
    /\ m_listings = <<>>
    /\ m_items = <<>>
    /\ m_fallback = FALSE

-----------------------------------------------------------------------------
(* Specifications *)

\* Concurrent callers of mark_deal_seen on one database.
Init == StoreInit /\ QueryIdle /\ MatchIdle /\ NotifierIdle /\ AnalyzeIdle /\ SearchIdle
        /\ HuntIdle /\ NotifyIdle
          /\ ExtractIdle

Next ==
    \/ (\E c \in Callers : MarkConnect(c))
          /\ UNCHANGED <<analyzeVars, searchVars, huntVars, notifyVars, extractVars,
                         queryVars, matchVars, notifierVars>>
    \/ (\E c \in Callers : MarkExecute(c))
          /\ UNCHANGED <<analyzeVars, searchVars, huntVars, notifyVars, extractVars,
                         queryVars, matchVars, notifierVars>>
    \/ (\E c \in Callers : MarkCommit(c))
          /\ UNCHANGED <<analyzeVars, searchVars, huntVars, notifyVars, extractVars,
                         queryVars, matchVars, notifierVars>>
    \/ (\E c \in Callers : MarkClose(c))
          /\ UNCHANGED <<analyzeVars, searchVars, huntVars, notifyVars, extractVars,
                         queryVars, matchVars, notifierVars>>
    \/ Tick /\ UNCHANGED <<analyzeVars, searchVars, huntVars, notifyVars, extractVars,
                           queryVars, matchVars, notifierVars>>

Spec == Init /\ [][Next]_vars

\* analyze_deal on every input, and assignments to the fields of its result.
InitAnalyze == StoreInit /\ QueryIdle /\ MatchIdle /\ NotifierIdle /\ AnalyzeInit
               /\ SearchIdle /\ HuntIdle /\ NotifyIdle
          /\ ExtractIdle

NextAnalyze ==
    \/ AnalyzeDeal /\ UNCHANGED <<storeVars, searchVars, huntVars, notifyVars,
                                  extractVars, queryVars, matchVars, notifierVars>>
    \/ SetField /\ UNCHANGED <<storeVars, searchVars, huntVars, notifyVars, extractVars,
                               queryVars, matchVars, notifierVars>>

SpecAnalyze == InitAnalyze /\ [][NextAnalyze]_vars

\* The dashboard serving search requests, one at a time, on its database.
InitSearch == StoreInit /\ QueryIdle /\ MatchIdle /\ NotifierIdle /\ AnalyzeIdle
              /\ SearchInit /\ HuntIdle /\ NotifyIdle
          /\ ExtractIdle

NextSearch ==
    \/ AppImport /\ UNCHANGED <<analyzeVars, huntVars, notifyVars, extractVars, queryVars,
                                matchVars, notifierVars>>
    \/ SearchBegin /\ UNCHANGED <<analyzeVars, huntVars, notifyVars, extractVars,
                                  queryVars, matchVars, notifierVars>>
    \/ SearchEbayStart /\ UNCHANGED <<analyzeVars, huntVars, notifyVars, extractVars,
                                      queryVars, matchVars, notifierVars>>
    \/ SearchEbaySearch /\ UNCHANGED <<analyzeVars, huntVars, notifyVars, extractVars,
                                       queryVars, matchVars, notifierVars>>
    \/ SearchEbayStop /\ UNCHANGED <<analyzeVars, huntVars, notifyVars, extractVars,
                                     queryVars, matchVars, notifierVars>>
    \/ SearchPropertyRoom /\ UNCHANGED <<analyzeVars, huntVars, notifyVars, extractVars,
                                         queryVars, matchVars, notifierVars>>
    \/ SearchRank /\ UNCHANGED <<analyzeVars, huntVars, notifyVars, extractVars,
                                 queryVars, matchVars, notifierVars>>
    \/ SearchLog /\ UNCHANGED <<analyzeVars, huntVars, notifyVars, extractVars, queryVars,
                                matchVars, notifierVars>>
    \/ SearchMark /\ UNCHANGED <<analyzeVars, huntVars, notifyVars, extractVars,
                                 queryVars, matchVars, notifierVars>>
    \/ SearchRespond /\ UNCHANGED <<analyzeVars, huntVars, notifyVars, extractVars,
                                    queryVars, matchVars, notifierVars>>
    \/ SearchCancel /\ UNCHANGED <<analyzeVars, huntVars, notifyVars, extractVars,
                                   queryVars, matchVars, notifierVars>>
    \/ StoreToggle /\ UNCHANGED <<analyzeVars, huntVars, notifyVars, extractVars,
                                  queryVars, matchVars, notifierVars>>

SpecSearch == InitSearch /\ [][NextSearch]_vars

\* One call of hunt_deals.
InitHunt == StoreInit /\ QueryIdle /\ MatchIdle /\ NotifierIdle /\ AnalyzeIdle
            /\ SearchIdle /\ HuntInit /\ NotifyIdle
          /\ ExtractIdle

NextHunt ==
    \/ HuntBegin /\ UNCHANGED <<storeVars, analyzeVars, searchVars, notifyVars,
                                extractVars, queryVars, matchVars, notifierVars>>
    \/ HuntBrowserStart /\ UNCHANGED <<storeVars, analyzeVars, searchVars, notifyVars,
                                       extractVars, queryVars, matchVars, notifierVars>>
    \/ HuntEbay /\ UNCHANGED <<storeVars, analyzeVars, searchVars, notifyVars,
                               extractVars, queryVars, matchVars, notifierVars>>
    \/ HuntPropertyRoom /\ UNCHANGED <<storeVars, analyzeVars, searchVars, notifyVars,
                                       extractVars, queryVars, matchVars, notifierVars>>
    \/ HuntSort /\ UNCHANGED <<storeVars, analyzeVars, searchVars, notifyVars,
                               extractVars, queryVars, matchVars, notifierVars>>
    \/ HuntStop /\ UNCHANGED <<storeVars, analyzeVars, searchVars, notifyVars,
                               extractVars, queryVars, matchVars, notifierVars>>

SpecHunt == InitHunt /\ [][NextHunt]_vars

\* The hunt_telegram command, run again and again.
InitNotify == StoreInit /\ QueryIdle /\ MatchIdle /\ NotifierIdle /\ AnalyzeIdle
              /\ SearchIdle /\ HuntIdle /\ NotifyInit
          /\ ExtractIdle

NextNotify ==
    \/ NotifyBegin /\ UNCHANGED <<storeVars, analyzeVars, searchVars, huntVars,
                                  extractVars, queryVars, matchVars, notifierVars>>
    \/ NotifyStart /\ UNCHANGED <<storeVars, analyzeVars, searchVars, huntVars,
                                  extractVars, queryVars, matchVars, notifierVars>>
    \/ NotifySearch /\ UNCHANGED <<storeVars, analyzeVars, searchVars, huntVars,
                                   extractVars, queryVars, matchVars, notifierVars>>
    \/ NotifySummary /\ UNCHANGED <<storeVars, analyzeVars, searchVars, huntVars,
                                    extractVars, queryVars, matchVars, notifierVars>>
    \/ NotifyStop /\ UNCHANGED <<storeVars, analyzeVars, searchVars, huntVars,
                                 extractVars, queryVars, matchVars, notifierVars>>

SpecNotify == InitNotify /\ [][NextNotify]_vars

------------------------------------------------------------------------

\* One search of one extractor, from the containers of its page on.
InitExtract == StoreInit /\ QueryIdle /\ MatchIdle /\ NotifierIdle /\ AnalyzeIdle
               /\ SearchIdle /\ HuntIdle /\ NotifyIdle
               /\ ExtractInit

NextExtract ==
    \/ ExtractEbay /\ UNCHANGED <<storeVars, analyzeVars, searchVars, huntVars,
                                  notifyVars, queryVars, matchVars, notifierVars>>
    \/ ExtractPropertyRoom
          /\ UNCHANGED <<storeVars, analyzeVars, searchVars, huntVars, notifyVars,
                         queryVars, matchVars, notifierVars>>
    \/ ExtractGovDeals
          /\ UNCHANGED <<storeVars, analyzeVars, searchVars, huntVars, notifyVars,
                         queryVars, matchVars, notifierVars>>
    \/ ExtractLiquidation
          /\ UNCHANGED <<storeVars, analyzeVars, searchVars, huntVars, notifyVars,
                         queryVars, matchVars, notifierVars>>
    \/ ExtractReturn
          /\ UNCHANGED <<storeVars, analyzeVars, searchVars, huntVars, notifyVars,
                         queryVars, matchVars, notifierVars>>

SpecExtract == InitExtract /\ [][NextExtract]_vars

\* search_ebay choosing the containers of one result page.
InitMatch == StoreInit /\ QueryIdle /\ MatchInit /\ NotifierIdle /\ AnalyzeIdle
             /\ SearchIdle /\ HuntIdle
             /\ NotifyIdle /\ ExtractIdle

NextMatch ==
    \/ TrySelector
          /\ UNCHANGED <<storeVars, analyzeVars, searchVars, huntVars, notifyVars,
                         extractVars, queryVars, notifierVars>>
    \/ Fallback
          /\ UNCHANGED <<storeVars, analyzeVars, searchVars, huntVars, notifyVars,
                         extractVars, queryVars, notifierVars>>
    \/ ParseListings
          /\ UNCHANGED <<storeVars, analyzeVars, searchVars, huntVars, notifyVars,
                         extractVars, queryVars, notifierVars>>

SpecMatch == InitMatch /\ [][NextMatch]_vars

\* One TelegramNotifier called in any order.
InitNotifier == Init

NextNotifier ==
    \/ ShouldNotify
          /\ UNCHANGED <<storeVars, analyzeVars, searchVars, huntVars, notifyVars,
                         extractVars, queryVars, matchVars>>
    \/ MarkSent
          /\ UNCHANGED <<storeVars, analyzeVars, searchVars, huntVars, notifyVars,
                         extractVars, queryVars, matchVars>>
    \/ AlertDeal
          /\ UNCHANGED <<storeVars, analyzeVars, searchVars, huntVars, notifyVars,
                         extractVars, queryVars, matchVars>>

SpecNotifier == InitNotifier /\ [][NextNotifier]_vars

\* One process marking deals seen and reading the table back.
InitQuery == Init

NextQuery ==
    \/ MarkDealSeen
          /\ UNCHANGED <<analyzeVars, searchVars, huntVars, notifyVars, extractVars,
                         matchVars, notifierVars>>
    \/ GetUnseenDeals
          /\ UNCHANGED <<analyzeVars, searchVars, huntVars, notifyVars, extractVars,
                         matchVars, notifierVars>>
    \/ IsDealSeen
          /\ UNCHANGED <<analyzeVars, searchVars, huntVars, notifyVars, extractVars,
                         matchVars, notifierVars>>

SpecQuery == InitQuery /\ [][NextQuery]_vars

-----
(* Properties of the seen-deal store *)

\* The step in which caller c's mark_deal_seen commits.
Committing(c) == pc[c] = "executed" /\ pc'[c] = "committed"

RowsOf(rows, url) == {r \in rows : r.item_url = url}

\* C1: once the stored row of an item_url has notified = 1, every later step
\* keeps a row for that url and keeps its notified at 1; no later
\* mark_deal_seen (in particular one with notified=False) resets it.
C1_NotifiedStep ==
    \A r \in seen_deals :
        r.notified = 1 =>
            /\ RowsOf(seen_deals', r.item_url) # {}
            /\ \A r2 \in RowsOf(seen_deals', r.item_url) : r2.notified = 1

C1_NotifiedNeverReset == [][C1_NotifiedStep]_vars

\* A call with notified=False has committed on a row that an earlier call
\* had marked notified.
C1_Witness ==
    \E c \in Callers :
        /\ pc[c] = "committed"
        /\ args[c].notified = FALSE
        /\ \E r \in seen_deals : r.item_url = args[c].item_url /\ r.notified = 1

\* C2: a row's first_seen is set by the call that inserts it and no later
\* step changes it; a re-sighting sets last_seen to the time of its statement.
C2_FirstSeenStep ==
    \A r2 \in seen_deals' :
        LET old == RowsOf(seen_deals, r2.item_url) IN
        /\ \A r \in old : r2.first_seen = r.first_seen
        /\ r2 \notin seen_deals =>
              \E c \in Callers :
                  /\ Committing(c)
                  /\ args[c].item_url = r2.item_url
                  /\ r2.last_seen = stamp[c]
                  /\ old = {} => r2.first_seen = stamp[c]

C2_FirstSeenKept == [][C2_FirstSeenStep]_vars

\* A row that was seen again later than it was first seen.
C2_Witness == \E r \in seen_deals : r.first_seen < r.last_seen

\* C3: whatever the interleaving of concurrent mark_deal_seen calls, the
\* committed table holds at most one row per item_url, exactly one for the
\* url of a call that has committed, and it always equals the result of
\* applying the committed calls one after another (in commit order): no
\* partly applied or lost update is ever visible.
C3_OneConsistentRow ==
    /\ \A u \in Urls : Cardinality(RowsOf(seen_deals, u)) <= 1
    /\ \A c \in Callers :
           pc[c] = "committed" => Cardinality(RowsOf(seen_deals, args[c].item_url)) = 1
    /\ seen_deals = serial

\* Two calls on the same item_url with different arguments were in flight
\* together and both have committed.
C3_Witness ==
    \E c1, c2 \in Callers :
        /\ c1 # c2
        /\ pc[c1] = "committed" /\ pc[c2] = "committed"
        /\ args[c1].item_url = args[c2].item_url
        /\ args[c1] # args[c2]

\* C4 as stated: when a call commits, the stored price, profit and margin of
\* its url are the values that call passed.
C4_LatestValuesStep ==
    \A c \in Callers :
        Committing(c) =>
            \A r2 \in RowsOf(seen_deals', args[c].item_url) :
                /\ r2.price = args[c].price
                /\ r2.profit = args[c].profit
                /\ r2.margin = args[c].margin

C4_StoredEqualsLatestCall == [][C4_LatestValuesStep]_vars

\* The value a field holds after a call passing `passed`: the passed value,
\* or what the url's row held before when the call passed None.
C4_Expected(passed, old, field) ==
    IF passed # None THEN passed
    ELSE IF old = {} THEN None
    ELSE (CHOOSE r \in old : TRUE)[field]

\* C4 amended: when a call commits, each of price, profit and margin of its
\* url is the value the call passed for it if that is not None, and is left
\* as it was if the call passed None: the stored value is that of the most
\* recent call that passed one.
C4_LatestNonNullStep ==
    \A c \in Callers :
        Committing(c) =>
            LET old == RowsOf(seen_deals, args[c].item_url) IN
            /\ RowsOf(seen_deals', args[c].item_url) # {}
            /\ \A r2 \in RowsOf(seen_deals', args[c].item_url) :
                /\ r2.price = C4_Expected(args[c].price, old, "price")
                /\ r2.profit = C4_Expected(args[c].profit, old, "profit")
                /\ r2.margin = C4_Expected(args[c].margin, old, "margin")

C4_StoredEqualsLatestNonNull == [][C4_LatestNonNullStep]_vars

\* A call that passed no price has committed on a row that holds one.
C4_Witness ==
    \E c \in Callers :
        /\ pc[c] = "committed"
        /\ args[c].price = None
        /\ \E r \in seen_deals : r.item_url = args[c].item_url /\ r.price # None

-----------------------------------------------------------------------------
(* Properties of the profit analysis *)

\* C9: analyze_deal returns None exactly when estimate_retail_from_title
\* gives None for the title; otherwise the ProfitAnalysis it returns has a
\* positive estimated_retail and a condition_modifier m with 0 < m <= 1, so
\* its expected_sell_price is positive.
C9_AnalyzeNoneIffNoEstimate ==
    a_pc = "analyzed" =>
        /\ a_result = None <=> estimate_retail_from_title(a_title) = None
        /\ a_result # None =>
              /\ a_result[1].estimated_retail > 0
              /\ a_result[1].condition_modifier > 0
              /\ a_result[1].condition_modifier <= ModifierUnit
              /\ expected_sell_price(a_result[1]) > 0

\* analyze_deal has returned an analysis of an item sold for parts.
C9_Witness ==
    /\ a_pc = "analyzed"
    /\ a_result # None
    /\ a_result[1].condition_modifier = 25

\* C10: in every state of a ProfitAnalysis, also after a field was assigned,
\* the derived values are those the formulas give on the present inputs; for
\* "MacBook Pro 16 M3 Pro" at 1200 + 0 shipping, "Excellent - Refurbished",
\* they are retail 2000, modifier 0.85, sell price 1700, fees 221, profit 279
\* and a margin between 16 and 17 percent, neither a good nor a great deal.
C10_DerivedFromInputs ==
    /\ a_result # None =>
        LET a == a_result[1]
            sell == (a.estimated_retail * a.condition_modifier) \div ModifierUnit
            fees == (sell * a.platform_fee_percent) \div 100
        IN /\ total_cost(a) = a.auction_price + a.shipping_cost
           /\ expected_sell_price(a) = sell
           /\ sell * ModifierUnit = a.estimated_retail * a.condition_modifier
           /\ platform_fees(a) = fees
           /\ fees * 100 = sell * a.platform_fee_percent
           /\ profit(a) = sell - (a.auction_price + a.shipping_cost) - fees
    /\ ( /\ a_pc = "analyzed"
         /\ a_title = "MacBook Pro 16 M3 Pro"
         /\ a_price = Dollars(1200)
         /\ a_shipping = 0
         /\ a_condition = "Excellent - Refurbished" ) =>
        /\ a_result # None
        /\ a_result[1].estimated_retail = Dollars(2000)
        /\ a_result[1].condition_modifier = 85
        /\ expected_sell_price(a_result[1]) = Dollars(1700)
        /\ platform_fees(a_result[1]) = Dollars(221)
        /\ profit(a_result[1]) = Dollars(279)
        /\ FracGT(profit_margin_percent(a_result[1]), 16)
        /\ ~FracGE(profit_margin_percent(a_result[1]), 17)
        /\ ~is_good_deal(a_result[1])
        /\ ~is_great_deal(a_result[1])

\* A ProfitAnalysis whose auction_price and condition_modifier were assigned
\* after analyze_deal built it.
C10_Witness ==
    /\ a_pc = "edited"
    /\ a_result # None
    /\ a_result[1].auction_price # a_price
    /\ a_result[1].condition_modifier # get_condition_modifier(a_condition)

\* C11: for every ProfitAnalysis, also after a field was assigned: when
\* expected_sell_price > 0, profit_margin_percent is exactly
\* profit / expected_sell_price * 100 (the fraction n/d it returns satisfies
\* n/d = 100 * profit / expected_sell_price with nothing rounded away), and
\* when expected_sell_price <= 0 it is 0.
C11_MarginIsProfitOverSellPrice ==
    a_result # None =>
        LET a == a_result[1]
            sell == expected_sell_price(a)
            m == profit_margin_percent(a)
        IN IF sell > 0
           THEN /\ m[2] > 0
                /\ (sell \div m[2]) * m[2] = sell
                /\ m[1] * (sell \div m[2]) = profit(a) * 100
           ELSE m[1] = 0 /\ m[2] > 0

\* A ProfitAnalysis whose estimated_retail was assigned a negative value, so
\* that its expected_sell_price is below 0 while its profit is not 0.
C11_Witness ==
    /\ a_pc = "edited"
    /\ a_result # None
    /\ expected_sell_price(a_result[1]) < 0
    /\ profit(a_result[1]) # 0
    /\ profit_margin_percent(a_result[1])[1] = 0

\* C12: for every ProfitAnalysis, also after a field was assigned,
\* is_great_deal implies is_good_deal.
C12_GreatImpliesGood ==
    a_result # None => (is_great_deal(a_result[1]) => is_good_deal(a_result[1]))

\* analyze_deal has returned a great deal.
C12_Witness ==
    /\ a_pc = "analyzed"
    /\ a_result # None
    /\ is_great_deal(a_result[1])

\* C13: analyze_deal("iPhone 14 Pro 128GB", 400, shipping 10, "Used - Good")
\* gives estimated_retail 800, condition_modifier 0.70, expected_sell_price
\* 560, platform_fees 72.8, profit 77.2 and a margin between 13.7% and 13.9%;
\* is_good_deal and is_great_deal are both false although profit > 75.
C13_IPhoneScenario ==
    ( /\ a_pc = "analyzed"
      /\ a_title = "iPhone 14 Pro 128GB"
      /\ a_price = Dollars(400)
      /\ a_shipping = Dollars(10)
      /\ a_condition = "Used - Good" ) =>
        /\ a_result # None
        /\ a_result[1].estimated_retail = Dollars(800)
        /\ a_result[1].condition_modifier = 70
        /\ expected_sell_price(a_result[1]) = Dollars(560)
        /\ platform_fees(a_result[1]) = Cents(7280)
        /\ profit(a_result[1]) = Cents(7720)
        /\ profit(a_result[1]) > Dollars(75)
        /\ profit_margin_percent(a_result[1])[1] * 10
              > 137 * profit_margin_percent(a_result[1])[2]
        /\ profit_margin_percent(a_result[1])[1] * 10
              < 139 * profit_margin_percent(a_result[1])[2]
        /\ ~is_good_deal(a_result[1])
        /\ ~is_great_deal(a_result[1])

\* analyze_deal has returned for the iPhone listing of the scenario.
C13_Witness ==
    /\ a_pc = "analyzed"
    /\ a_title = "iPhone 14 Pro 128GB"
    /\ a_price = Dollars(400)
    /\ a_shipping = Dollars(10)
    /\ a_condition = "Used - Good"
    /\ a_result # None

\* The precedence table for condition texts, read in order, in hundredths:
\* "new" without "pre-owned"; refurbished or renewed; used or pre-owned;
\* salvage; parts or not working; anything else.
C14_Table(condition) ==
    LET c == Lower(condition) IN
    IF Contains(c, "new") /\ ~Contains(c, "pre-owned") THEN 100
    ELSE IF Contains(c, "refurbished") \/ Contains(c, "renewed")
    THEN IF Contains(c, "excellent") THEN 85
         ELSE IF Contains(c, "good") THEN 75
         ELSE 80
    ELSE IF Contains(c, "used") \/ Contains(c, "pre-owned")
    THEN IF Contains(c, "like new") THEN 85
         ELSE IF Contains(c, "good") THEN 70
         ELSE IF Contains(c, "acceptable") THEN 55
         ELSE 65
    ELSE IF Contains(c, "salvage") THEN 35
    ELSE IF Contains(c, "parts") \/ Contains(c, "not working") THEN 25
    ELSE 70

\* C14: for every condition text, the condition_modifier analyze_deal gets
\* from get_condition_modifier is the value of the precedence table: 1.0 for
\* a text with "new" and without "pre-owned", 0.80 for refurbished or
\* renewed (0.85 excellent, 0.75 good), 0.65 for used or pre-owned (0.85 like
\* new, 0.70 good, 0.55 acceptable), 0.35 for salvage, 0.25 for parts or not
\* working, 0.70 for anything else.
C14_ModifierFollowsTable ==
    (a_pc = "analyzed" /\ a_result # None) =>
        /\ a_result[1].condition_modifier = get_condition_modifier(a_condition)
        /\ get_condition_modifier(a_condition) = C14_Table(a_condition)

-----------------------------------------------------------------------------
(* Properties of the dashboard search *)

\* C5: when the store is unavailable, so that log_search or mark_deal_seen
\* raises, the search request still completes and returns its deals: no
\* request ends with the exception of a store call.
C5_SearchSurvivesStoreOutage ==
    ~(s_pc = "failed" /\ s_error \in {"log_search", "mark_deal_seen"})

\* The rows of seen_deals written since the request began.
C7_Written == seen_deals \ s_seen0

\* C7: seen_deals is as it was when the request began for as long as the
\* handler is extracting, ranking or logging, and also once it was abandoned
\* or has failed before the marking loop; and every row written belongs to
\* an entry of deals the loop has passed, whose item is in all_items and
\* whose analysis is that of analyze_deal and meets both thresholds.
C7_MarkOnlyScoredAfterExtraction ==
    /\ ( \/ s_pc \in SearchAwaiting \cup {"rank", "log", "cancelled"}
         \/ s_pc = "failed" /\ s_error # "mark_deal_seen" ) => seen_deals = s_seen0
    /\ \A r \in C7_Written :
          /\ s_pc \in {"mark", "done", "failed"}
          /\ \E i \in 1..s_marked :
                LET d == s_deals[i] IN
                /\ d.item.url = r.item_url
                /\ \E k \in 1..Len(s_all_items) : s_all_items[k] = d.item
                /\ analyze_deal(d.item.title, d.item.price, d.item.shipping,
                                ConditionFor(d.item, d.source)) = Some(d.analysis)
                /\ profit(d.analysis) >= Dollars(s_params.min_profit)
                /\ FracGE(profit_margin_percent(d.analysis), s_params.min_margin)

\* After an earlier request marked its deals, a request that had already
\* scored a deal was abandoned during the PropertyRoom extraction.
C7_Witness ==
    /\ s_pc = "cancelled"
    /\ s_deals # <<>>
    /\ s_nsearch = 2
    /\ seen_deals # {}

-----------------------------------------------------------------------------
(* Properties of hunt_deals and of hunt_with_notifications *)

\* C6: whatever fails in one source (eBay: browser start, context, navigation;
\* PropertyRoom: HTTP request, client), hunt_deals returns and does not raise,
\* the failed source is reported with count 0 and contributes no listing, and
\* every source that did not fail is reported with the listings its scraper
\* returned, all of them in all_items.
C6_SourceFailureIsAbsorbed ==
    h_pc \in {"returned", "raised"} =>
        /\ h_pc = "returned"
        /\ \A src \in h_params.sources :
              IF h_fault[src] # "none"
              THEN /\ h_stats[src] = 0
                   /\ \A k \in 1..Len(h_all_items) : h_all_items[k].source # src
              ELSE /\ h_stats[src] = Len(h_got[src])
                   /\ \A i \in 1..Len(h_got[src]) :
                         \E k \in 1..Len(h_all_items) : h_all_items[k].url = h_got[src][i].url

\* C8: over all runs of hunt_with_notifications, no listing url gets more
\* than one individual alert.
C8_AlertedAtMostOnce == \A u \in NotifyUrls : n_alerts[u] <= 1

\* The listings the sources returned to this call, eBay's first.
HuntGot == h_got.ebay \o h_got.propertyroom

\* C15: when hunt_deals returns, all_items holds every listing the sources
\* returned, in order, scoreable or not, and total_items counts them all; no
\* listing whose retail estimate is None is in deals.
C15_UnscoredKeptButNeverADeal ==
    h_pc = "returned" =>
        /\ HuntResult.total_items = Len(HuntGot)
        /\ Len(HuntResult.all_items) = Len(HuntGot)
        /\ \A k \in 1..Len(HuntGot) :
              /\ HuntResult.all_items[k].url = HuntGot[k].url
              /\ HuntResult.all_items[k].title = HuntGot[k].title
        /\ \A i \in 1..Len(HuntResult.deals) :
              estimate_retail_from_title(HuntResult.deals[i].item.title) # None

\* hunt_deals returned a deal, and the accessory it was also shown is among
\* all_items.
C15_Witness ==
    /\ h_pc = "returned"
    /\ h_deals # <<>>
    /\ \E k \in 1..Len(h_all_items) : h_all_items[k].title = "USB-C Charger Cable"

\* The condition hunt_deals scores a returned listing with.
C16_Condition(it) == IF it.source = "propertyroom" THEN "Pre-Owned" ELSE it.condition

\* A returned listing that can be scored and meets the three bounds.
C16_Qualifies(it) ==
    LET an == analyze_deal(it.title, it.price, it.shipping, C16_Condition(it)) IN
    /\ an # None
    /\ profit(an[1]) >= Dollars(h_params.min_profit)
    /\ profit_margin_percent(an[1])[1] >= h_params.min_margin * profit_margin_percent(an[1])[2]
    /\ profit_margin_percent(an[1])[1] <= h_params.max_margin * profit_margin_percent(an[1])[2]

\* C16: when hunt_deals returns, deals holds exactly the returned listings
\* that are scored with profit >= min_profit and min_margin <= margin <=
\* max_margin, each as often as it was returned: none that violates a bound,
\* none that meets them omitted; nothing returned gives no deals.
C16_DealsAreExactlyTheQualifying ==
    h_pc = "returned" =>
        /\ \A i \in 1..Len(h_deals) :
              /\ \E k \in 1..Len(HuntGot) : HuntGot[k].url = h_deals[i].item.url
              /\ C16_Qualifies(h_deals[i].item)
        /\ \A k \in 1..Len(HuntGot) :
              C16_Qualifies(HuntGot[k]) =>
                 Cardinality({i \in 1..Len(h_deals) : h_deals[i].item.url = HuntGot[k].url})
                    = Cardinality({j \in 1..Len(HuntGot) : HuntGot[j].url = HuntGot[k].url})
        /\ (HuntGot = <<>> => h_deals = <<>>)

\* hunt_deals returned with one listing kept, one dropped for its margin
\* above max_margin or its profit below min_profit, and one unscoreable.
C16_Witness ==
    /\ h_pc = "returned"
    /\ h_deals # <<>>
    /\ \E k \in 1..Len(HuntGot) :
          /\ analyze_deal(HuntGot[k].title, HuntGot[k].price, HuntGot[k].shipping,
                          C16_Condition(HuntGot[k])) # None
          /\ ~C16_Qualifies(HuntGot[k])

\* C17: the deals hunt_deals returns are in descending order of margin; of
\* two deals with equal margin the one with the higher profit comes first;
\* deals equal in both keep the order in which they were appended.
C17_OrderedByMarginThenProfit ==
    h_pc = "returned" =>
        \A i \in 1..Len(h_deals) : \A j \in 1..Len(h_deals) :
            i < j =>
              LET mi == profit_margin_percent(h_deals[i].analysis)
                  mj == profit_margin_percent(h_deals[j].analysis)
              IN /\ mi[1] * mj[2] >= mj[1] * mi[2]
                 /\ mi[1] * mj[2] = mj[1] * mi[2] =>
                       profit(h_deals[i].analysis) >= profit(h_deals[j].analysis)

-----------------------------------------------------------------------------
(* Properties of the extractors *)

\* The containers the loop of the search goes through.
ExtractSlice == 1..SliceLen(x_listings, x_max_results)

\* C18: no item returned by an extractor (eBay, GovDeals, Liquidation.com,
\* PropertyRoom) has an empty url: a container in which no url is found gives
\* no item.
C18_NoItemWithoutUrl ==
    x_pc = "returned" =>
        /\ \A j \in 1..Len(x_items) : x_items[j].url # ""
        /\ \A k \in ExtractSlice :
              x_listings[k].href = None => k \notin {x_from[j] : j \in 1..Len(x_from)}

\* C19: search_ebay retains a listing whose price is the sentinel 0: every
\* container among the first max_results that parses to an item of price 0
\* has that item in the result.
C19_ZeroPriceRetained ==
    (x_pc = "returned" /\ x_source = "ebay") =>
        \A k \in ExtractSlice :
            LET item == parse_ebay_listing(x_listings[k]) IN
            (item # None /\ item[1].price = 0) =>
                \E j \in 1..Len(x_items) : x_from[j] = k /\ x_items[j] = item[1]

\* C20: when a search returns, its loop has taken every one of the first
\* max_results containers, whatever the parser made of the earlier ones; each
\* returned item is what the parser made of its container; the items are in
\* the order of their containers; and every container the loop keeps an item
\* of has its item returned, also when it comes after a container that
\* failed to parse.
C20_BatchSurvivesParseFailure ==
    x_pc = "returned" =>
        /\ x_attempts = SliceLen(x_listings, x_max_results)
        /\ Len(x_from) = Len(x_items)
        /\ \A j \in 1..Len(x_items) :
              /\ x_from[j] \in ExtractSlice
              /\ ParseOf(x_source, x_listings[x_from[j]]) = Some(x_items[j])
        /\ \A i \in 1..Len(x_from) : \A j \in 1..Len(x_from) :
              i < j => x_from[i] < x_from[j]
        /\ \A k \in ExtractSlice :
              KeptBy(x_source, ParseOf(x_source, x_listings[k])) =>
                  \E j \in 1..Len(x_from) : x_from[j] = k

\* A search returned an item whose container came after one that failed to
\* parse.
C20_Witness ==
    /\ x_pc = "returned"
    /\ x_source \in {"ebay", "propertyroom"}
    /\ \E j \in 1..Len(x_from) : \E k \in 1..(x_from[j] - 1) :
          ParseOf(x_source, x_listings[k]) = None

-----------------------------------------------------------------------------
(* Further properties of hunt_deals *)

\* the position of event e in the history, or 0
C21_At(e) ==
    IF \E i \in 1..Len(h_events) : h_events[i] = e
    THEN CHOOSE i \in 1..Len(h_events) : h_events[i] = e
    ELSE 0

\* C21: in a call of hunt_deals with both sources in which both extractions
\* were issued, the PropertyRoom extraction is issued before the eBay
\* extraction has completed.
C21_ExtractionsOverlap ==
    ( /\ h_pc = "returned"
      /\ h_params.sources = {"ebay", "propertyroom"} ) =>
        /\ C21_At("propertyroom issued") # 0
        /\ C21_At("ebay completed") # 0
        /\ C21_At("propertyroom issued") < C21_At("ebay completed")

-----------------------------------------------------------------------------
(* Browser resources of the dashboard search *)

\* C28: when a dashboard search has ended, by a response, a failure or a
\* cancellation, every browser, context and page it opened has been closed.
C28_SearchClosesWhatItOpened ==
    s_pc \in {"done", "failed", "cancelled"} => s_open = {}

-----------------------------------------------------------------------------
(* Reading the seen-deal store back *)

\* the positions of urls whose url has no row in rows
C22_UnseenAt(rows, urls) == {i \in 1..Len(urls) : RowsOf(rows, urls[i]) = {}}

\* C22: a call of get_unseen_deals returns exactly the urls of its argument
\* that have no row in seen_deals, in the order of the argument; once
\* mark_deal_seen has returned for a url, no later call of get_unseen_deals
\* returns it and every later call of is_deal_seen on it returns true.
C22_UnseenAreTheUnmarked ==
    [][ UNCHANGED storeVars =>
          /\ q_op' = "get_unseen_deals" =>
                LET at == C22_UnseenAt(seen_deals, q_arg') IN
                /\ Len(q_result') = Cardinality(at)
                /\ \A i \in at :
                      q_result'[Cardinality({j \in at : j <= i})] = q_arg'[i]
                /\ \A k \in 1..Len(q_result') : q_result'[k] \notin q_marked
          /\ q_op' = "is_deal_seen" =>
                (q_arg' \in q_marked => q_result' = TRUE) ]_vars

\* get_unseen_deals was given a marked url followed by an unmarked one and
\* returned only the second.
C22_Witness ==
    /\ q_op = "get_unseen_deals"
    /\ Len(q_arg) = 2
    /\ q_arg[1] \in q_marked
    /\ q_arg[2] \notin q_marked
    /\ q_result = <<q_arg[2]>>
    /\ \E r \in seen_deals : r.item_url = q_arg[1] /\ r.notified = 0

-----------------------------------------------------------------------------
(* Exit status of the hunt_telegram command *)

\* C23: when the command has exited after a search that returned, its exit
\* status is that of a successful run, 0, whether or not a qualifying deal
\* was found.
C23_NoDealIsASuccessfulRun ==
    (n_pc = "returned" /\ n_exit # Running) => n_exit = 0

-----------------------------------------------------------------------------
(* The container matchers of search_ebay *)

\* matcher k finds a card with a real item link on the page
C24_Yields(k) ==
    \E i \in 1..Len(m_page) : k \in m_page[i].matches /\ RealItemLink(m_page[i].href)

\* no call on a card of the page raises
C24_Quiet == \A i \in 1..Len(m_page) : ~m_page[i].broken

\* C24: when search_ebay returns, its listings all come from one matcher;
\* on a page where no call raises they are the cards with a real item link
\* of the first matcher that finds such a card; the fallback has run only if
\* no matcher gave a listing, and no returned item has a placeholder url.
C24_ContainersOfOneMatcher ==
    m_pc = "returned" =>
        /\ \A i, j \in 1..Len(m_listings) :
              m_listings[i].selector = m_listings[j].selector
        /\ \A k \in 1..Len(Selectors) :
              (C24_Quiet /\ C24_Yields(k) /\ \A j \in 1..(k - 1) : ~C24_Yields(j)) =>
                  /\ ~m_fallback
                  /\ Len(m_listings) = Len(SelectSeq(FoundBy(m_page, k),
                                              LAMBDA c : RealItemLink(c.href)))
                  /\ \A i \in 1..Len(m_listings) :
                        /\ m_listings[i].selector = k
                        /\ k \in m_listings[i].card.matches
                        /\ RealItemLink(m_listings[i].card.href)
        /\ m_fallback => \A i \in 1..Len(m_listings) : m_listings[i].selector = 0
        /\ \A i \in 1..Len(m_items) : ~Contains(m_items[i].url, "/123456")

-----------------------------------------------------------------------------
(* The order of the retail estimator's rules *)

\* The families in the order they are tried, each with its sub-model rules
\* from the most specific on: a rule applies to a title that holds one of its
\* words, and the last rule of a family applies to every title of the family.
C25_Families ==
    << [family |-> {"laptop", "notebook", "macbook", "thinkpad", "latitude",
                    "chromebook", "elitebook", "probook", "ideapad", "pavilion",
                    "inspiron", "xps", "surface pro", "surface laptop"},
        rules |-> << <<{"macbook pro"}, {"16", "m3", "m2"}, 2000>>,
                     <<{"macbook pro"}, {""}, 1200>>,
                     <<{"macbook air"}, {""}, 900>>,
                     <<{"thinkpad"}, {"x1"}, 1200>>,
                     <<{"thinkpad"}, {""}, 600>>,
                     <<{"dell latitude"}, {""}, 500>>,
                     <<{"chromebook"}, {""}, 200>>,
                     <<{"gaming", "predator", "rog"}, {""}, 1000>>,
                     <<{""}, {""}, 400>> >>],
       [family |-> {"iphone"},
        rules |-> << <<{"15 pro"}, {""}, 1000>>, <<{"15"}, {""}, 800>>,
                     <<{"14 pro"}, {""}, 800>>, <<{"14"}, {""}, 600>>,
                     <<{"13"}, {""}, 500>>, <<{"12"}, {""}, 400>>,
                     <<{""}, {""}, 350>> >>],
       [family |-> {"galaxy", "samsung"},
        rules |-> << <<{"s24", "s23"}, {""}, 700>>, <<{"s22", "s21"}, {""}, 500>>,
                     <<{""}, {""}, 300>> >>],
       [family |-> {"ipad"},
        rules |-> << <<{"pro"}, {""}, 800>>, <<{"air"}, {""}, 500>>,
                     <<{""}, {""}, 350>> >>],
       [family |-> {"playstation", "ps5"},
        rules |-> << <<{""}, {""}, 450>> >>],
       [family |-> {"xbox"},
        rules |-> << <<{"series x"}, {""}, 450>>, <<{""}, {""}, 300>> >>],
       [family |-> {"nintendo switch"},
        rules |-> << <<{"oled"}, {""}, 350>>, <<{""}, {""}, 250>> >> ] >>

\* the words that make a title an accessory, and the device words that
\* overrule them
C25_Accessory(t) ==
    /\ ContainsAny(t, {"cable", "lock", "bag", "backpack", "charger", "adapter",
                       "case", "sleeve", "stand", "mount", "holder", "strap",
                       "cleaning", "kit", "cover", "skin", "protector", "lot of"})
    /\ ~ContainsAny(t, {"macbook", "thinkpad", "iphone", "ipad", "galaxy"})

\* the estimate the ordered families give for a lower-case title, in dollars
C25_Expected(t) ==
    LET fams == {i \in 1..Len(C25_Families) : ContainsAny(t, C25_Families[i].family)}
    IN IF C25_Accessory(t) \/ fams = {} THEN None
       ELSE LET f == C25_Families[CHOOSE i \in fams : \A j \in fams : i <= j]
                hit == {k \in 1..Len(f.rules) :
                           ContainsAny(t, f.rules[k][1]) /\ ContainsAny(t, f.rules[k][2])}
            IN Some(f.rules[CHOOSE k \in hit : \A j \in hit : k <= j][3])

\* C25: the estimate analyze_deal works with is the one the first matching
\* family gives by its first matching sub-model rule, after the rejection of
\* accessory titles; a title no family matches, or a rejected one, gives no
\* analysis.
C25_FirstMatchingRuleWins ==
    a_pc = "analyzed" =>
        LET e == C25_Expected(Lower(a_title)) IN
        /\ a_result = None <=> e = None
        /\ a_result # None => a_result[1].estimated_retail = Dollars(e[1])

\* A title of two families was priced by the earlier one: a Samsung laptop
\* is a laptop.
C25_Witness ==
    /\ a_pc = "analyzed"
    /\ a_title = "Samsung Galaxy Book Laptop"
    /\ a_result # None
    /\ a_result[1].estimated_retail = Dollars(400)

-----------------------------------------------------------------------------
(* The upper bound of the margin *)

-----------------------------------------------------------------------------
(* Retained deals and the good-deal classification *)

\* C27: when hunt_deals returns from a call with the default thresholds
\* (min_profit 30, min_margin 25, max_margin 100), every deal it retained is
\* a good deal by ProfitAnalysis.is_good_deal, and every returned listing
\* whose analysis is a good deal was retained.
C27_RetainedAreTheGoodDeals ==
    ( /\ h_pc = "returned"
      /\ h_params.min_profit = 30
      /\ h_params.min_margin = 25
      /\ h_params.max_margin = 100 ) =>
        /\ \A i \in 1..Len(h_deals) : is_good_deal(h_deals[i].analysis)
        /\ \A k \in 1..Len(HuntGot) :
              LET an == analyze_deal(HuntGot[k].title, HuntGot[k].price,
                                     HuntGot[k].shipping, C16_Condition(HuntGot[k]))
              IN (an # None /\ is_good_deal(an[1])) =>
                    \E i \in 1..Len(h_deals) : h_deals[i].item.url = HuntGot[k].url

-----------------------------------------------------------------------------
(* The counts in the result of hunt_deals *)

\* the count source_stats reports for a source, nothing for an absent key
C29_Count(stats, source) == IF stats[source] = Absent THEN 0 ELSE stats[source]

\* C29: in the result of hunt_deals total_items is the sum of the counts in
\* source_stats, deals_found is the length of deals and at most total_items,
\* and a source whose count is 0 has no entry in all_items or in deals.
C29_CountsAgree ==
    h_pc = "returned" =>
        LET r == HuntResult IN
        /\ r.total_items = C29_Count(r.source_stats, "ebay")
                             + C29_Count(r.source_stats, "propertyroom")
        /\ r.deals_found = Len(r.deals)
        /\ r.deals_found <= r.total_items
        /\ \A src \in {"ebay", "propertyroom"} :
              r.source_stats[src] = 0 =>
                  /\ \A k \in 1..Len(r.all_items) : r.all_items[k].source # src
                  /\ \A i \in 1..Len(r.deals) : r.deals[i].source # src

\* hunt_deals returned after eBay failed, with count 0, and PropertyRoom gave
\* two listings, one of them a deal.
C29_Witness ==
    /\ h_pc = "returned"
    /\ h_fault.ebay = "context"
    /\ HuntResult.source_stats.ebay = 0
    /\ HuntResult.source_stats.propertyroom = 2
    /\ HuntResult.total_items = 2
    /\ HuntResult.deals_found = 1

-----------------------------------------------------------------------------
(* One notifier: what was sent is not sent again *)

\* the item id of a url: what follows "/itm/" up to a "?", or the whole url
C30_ItemId(url) ==
    IF ~Contains(url, "/itm/") THEN url
    ELSE LET rest == SubSeq(url, IndexOf(url, "/itm/") + 5, Len(url))
             q == IndexOf(rest, "?")
         IN IF q = 0 THEN rest ELSE SubSeq(rest, 1, q - 1)

\* C30: a call of should_notify(u) returns false exactly when an earlier
\* mark_sent(v) had the item id of u; no call takes anything out of
\* sent_deals; and no two individual alerts are for the same item id.
C30_SentIsNotSentAgain ==
    [][ /\ t_op' \in {"should_notify", "alert"} =>
              (t_result' = FALSE <=>
                  \E v \in t_marked : C30_ItemId(v) = C30_ItemId(t_arg'))
        /\ t_sent_deals \subseteq t_sent_deals'
        /\ \A i, j \in 1..Len(t_alerted') :
              C30_ItemId(t_alerted'[i]) = C30_ItemId(t_alerted'[j]) => i = j ]_vars

\* should_notify refused a url whose item was marked sent under another url.
C30_Witness ==
    /\ t_op = "should_notify"
    /\ t_result = FALSE
    /\ t_arg \notin t_marked
    /\ t_marked # {}
    /\ Len(t_alerted) = 1

====

